---- MODULE Spec2Model ----
(***************************************************************************)
(* Connection-orchestration core of the WhatsApp integration package:      *)
(*   ConnectionStateManager  (packages/features/whatsapp/src/index.ts)     *)
(*   ReconnectionManager     (connection/reconnection-manager.ts)          *)
(*   MessageManager          (unnamed/part_004)                            *)
(*   WhatsAppClient          (whatsapp-client.ts, first class in the file) *)
(*                                                                         *)
(* Each component is modelled by operators over a record of its fields;    *)
(* the actions of a specification read the record from the variables,      *)
(* apply the operators in the order the handler calls them, and write the  *)
(* record back.  Awaits of the driver, of the credential strategy and of   *)
(* timers are the only points where a handler is split into two actions.   *)
(***************************************************************************)
EXTENDS Integers, Sequences, FiniteSets, Bags, TLC

\* ------------------------------------------------------------------------
\* Bounds of the model (not program constants)
\* ------------------------------------------------------------------------
MaxSmCalls == 3
\* shortest transition history a run of SpecSMLong starts from
HistoryStart == 48
MaxTimers == 1
MaxRetryTimers == 1
MaxConns == 1
MaxDestroys == 2
MaxCleanups == 1
MaxCountedConnects == 3
\* longest transition history a run of the client specifications builds,
\* and a run that records the observations of the claims
MaxHistory == 4
MaxObservedHistory == 6
MaxMsgs == 1
MaxDispatches == 3
\* connect requests of one user served in a run of SpecRoute
MaxRequests == 2
MaxSweeps == 1
MaxDeliveries == 1
\* initialize() calls that pass the isInitialized guard in a run of SpecInit
MaxInits == 2
\* shortest conversation history a run of SpecMQLong starts from
ChatHistoryStart == 98
\* config.connection.maxReconnectAttempts as passed to the constructor
ConfiguredMaxAttempts == 2

\* ------------------------------------------------------------------------
\* Program constants
\* ------------------------------------------------------------------------
maxHistorySize == 50
maxHistoryPerChat == 100
defaultMaxRetries == 3

WhatsAppStatus ==
  { "disconnected", "connecting", "waiting_qr", "connected", "error",
    "conflict", "deprecated_version", "opening", "pairing", "proxyblock",
    "smb_tos_block", "timeout", "tos_block", "unlaunched", "unpaired",
    "unpaired_idle" }

Null == "null"
QrCodes == { "qrA" }

validTransitions ==
  [ s \in WhatsAppStatus |->
      CASE s = "disconnected"       -> { "connecting", "opening", "unlaunched" }
        [] s = "unlaunched"         -> { "opening", "connecting", "disconnected" }
        [] s = "opening"            -> { "connecting", "waiting_qr", "pairing", "error", "disconnected" }
        [] s = "connecting"         -> { "waiting_qr", "pairing", "connected", "error", "timeout", "disconnected" }
        [] s = "waiting_qr"         -> { "connecting", "pairing", "connected", "timeout", "error", "disconnected" }
        [] s = "pairing"            -> { "connected", "unpaired", "error", "timeout", "disconnected" }
        [] s = "connected"          -> { "disconnected", "error", "conflict", "deprecated_version", "proxyblock", "smb_tos_block", "tos_block" }
        [] s = "error"              -> { "disconnected", "connecting", "opening" }
        [] s = "timeout"            -> { "disconnected", "connecting", "opening" }
        [] s = "conflict"           -> { "disconnected", "connecting" }
        [] s = "deprecated_version" -> { "disconnected" }
        [] s = "proxyblock"         -> { "disconnected", "connecting" }
        [] s = "smb_tos_block"      -> { "disconnected" }
        [] s = "tos_block"          -> { "disconnected" }
        [] s = "unpaired"           -> { "disconnected", "connecting", "unpaired_idle" }
        [] s = "unpaired_idle"      -> { "disconnected", "connecting" } ]

VARIABLES
  \* ConnectionStateManager fields
  currentState, previousState, currentQrCode, stateHistory,
  \* ReconnectionManager fields; timers is the set of pending backoff
  \* timeouts (how many per reconnect function), reconnectTimer the handle
  \* the manager holds, retryTimers the pending 1000 ms timeouts
  reconnectAttempts, isReconnecting, reconnectTimer, timers, retryTimers,
  \* the manager's copy of the configured maximum, which updateConfig changes
  maxReconnectAttempts,
  \* calls of the reconnect function / of connect() that are suspended
  conns,
  \* MessageManager fields; sends counts the suspended sendFunction calls
  \* per message id, evictions the pending 5000 ms removal timers, nextId
  \* stands for generateMessageId (ids are never reused)
  messageQueue, messageHistory, sends, evictions, nextId,
  \* WhatsAppClient fields; client tells whether this.client is set.  The
  \* drivers initialize() created are numbered in creation order:
  \* driverLive[d] tells whether driver d was started and not destroyed
  \* since, disconnects[d] counts the disconnect() calls suspended in its
  \* destroy()
  isInitialized, isConnecting, client, driverLive, disconnects,
  \* the listener maps: whether the state manager still holds the client's
  \* 'internal' state-change listener (stateListeners), and the ids under
  \* which callbacks of the user are registered in the client's
  \* eventListeners (clientEvents), in the state manager's eventListeners
  \* (stateEvents) and in the message manager's listeners (messageListeners)
  listeners,
  \* initialize() calls in progress and what they created so far
  boot,
  \* the cleanup() call in progress, if any
  teardown,
  \* ids of the messages whose sendMessage() call has enqueued them and
  \* awaits queueOutgoingMessage before it dispatches
  handoffs,
  \* the connect route of the web application: its module-level maps for
  \* one user and the requests being served
  route,
  \* observations of a run: how far it follows the script of scenario A,
  \* whether disconnect() completed with no connect() call by the user
  \* since, and how often a backoff timer called connect() since the
  \* lifecycle was last connected
  scenario, afterDisconnect, rmConnects,
  \* whether the specification keeps these three observations
  observing,
  \* the most recent API call and what it returned (observation only)
  lastCall,
  \* number of state-changing calls made so far in a bounded specification
  calls

smVars == << currentState, previousState, currentQrCode, stateHistory >>
rmVars == << reconnectAttempts, isReconnecting, reconnectTimer, timers, retryTimers,
            maxReconnectAttempts >>
mqVars == << messageQueue, messageHistory, sends, evictions, nextId >>
vars == << currentState, previousState, currentQrCode, stateHistory,
           reconnectAttempts, isReconnecting, reconnectTimer, timers, retryTimers,
           maxReconnectAttempts,
           conns, messageQueue, messageHistory, sends, evictions, nextId,
           isInitialized, isConnecting, client, driverLive, disconnects,
           listeners, boot, teardown, handoffs, route,
           scenario, afterDisconnect, rmConnects, observing,
           lastCall, calls >>
clVars == << isInitialized, isConnecting, client, driverLive, disconnects, listeners >>
envVars == << boot, teardown, handoffs, route >>
obsVars == << scenario, afterDisconnect, rmConnects, observing >>
notSM == << rmVars, conns, mqVars, clVars, envVars, obsVars >>
notRM == << smVars, mqVars, clVars, envVars, obsVars >>
notMQ == << smVars, rmVars, conns, clVars, envVars, obsVars >>

NoCall == [ op |-> "none" ]
OtherCall == [ op |-> "other" ]

\* ========================================================================
\* ConnectionStateManager
\* ========================================================================

\* The manager's fields as one record.
SM == [ currentState  |-> currentState,
        previousState |-> previousState,
        currentQrCode |-> currentQrCode,
        stateHistory  |-> stateHistory ]

SetSM(s) ==
  /\ currentState'  = s.currentState
  /\ previousState' = s.previousState
  /\ currentQrCode' = s.currentQrCode
  /\ stateHistory'  = s.stateHistory

addToHistoryNoLimit(h, state) == Append(h, state)

\* addToHistory: push, then keep the last maxHistorySize entries.
\* Timestamps are abstracted to the position in the sequence.
addToHistory(h, state) ==
  LET pushed == Append(h, state)
  IN  IF Len(pushed) > maxHistorySize
        THEN SubSeq(pushed, Len(pushed) - maxHistorySize + 1, Len(pushed))
        ELSE pushed

\* State of a freshly constructed manager.
SMInit ==
  [ currentState  |-> "disconnected",
    previousState |-> "disconnected",
    currentQrCode |-> Null,
    stateHistory  |-> addToHistory(<< >>, "disconnected") ]

canTransitionToLoose(s, newState) ==
  newState \in validTransitions[s.currentState] \cup { "opening" }

canTransitionTo(s, newState) == newState \in validTransitions[s.currentState]

\* What one call of notifyStateChange delivers to every state-change
\* listener, and one call of emitConnectionEvent to every event listener.
notifyStateChange(newState, oldState) == << << newState, oldState >> >>

emitConnectionEvent(state) == << [ type |-> "state_changed", state |-> state ] >>

\* setState: result record holds the manager afterwards, the returned
\* boolean, whether the listeners were notified, and the calls delivered to
\* the state-change listeners and to the event listeners.
setStateNoDup(s, newState) ==
  IF ~canTransitionTo(s, newState)
    THEN [ sm |-> s, ok |-> FALSE, notified |-> FALSE,
           stateCalls |-> << >>, eventCalls |-> << >> ]
    ELSE [ sm |-> [ s EXCEPT !.previousState = s.currentState,
                             !.currentState  = newState,
                             !.stateHistory  = addToHistory(s.stateHistory, newState) ],
           ok |-> TRUE, notified |-> TRUE,
           stateCalls |-> notifyStateChange(newState, s.currentState),
           eventCalls |-> emitConnectionEvent(newState) ]

setStateReemit(s, newState) ==
  IF ~canTransitionTo(s, newState) /\ s.currentState # newState
    THEN [ sm |-> s, ok |-> FALSE, notified |-> FALSE,
           stateCalls |-> << >>, eventCalls |-> << >> ]
    ELSE [ sm |-> [ s EXCEPT !.previousState = s.currentState,
                             !.currentState  = newState,
                             !.stateHistory  = addToHistory(s.stateHistory, newState) ],
           ok |-> TRUE, notified |-> TRUE,
           stateCalls |-> notifyStateChange(newState, s.currentState),
           eventCalls |-> emitConnectionEvent(newState) ]

setState(s, newState) ==
  IF s.currentState = newState
    THEN [ sm |-> s, ok |-> TRUE, notified |-> FALSE,
           stateCalls |-> << >>, eventCalls |-> << >> ]
    ELSE IF ~canTransitionTo(s, newState)
      THEN [ sm |-> s, ok |-> FALSE, notified |-> FALSE,
             stateCalls |-> << >>, eventCalls |-> << >> ]
      ELSE [ sm |-> [ s EXCEPT !.previousState = s.currentState,
                               !.currentState  = newState,
                               !.stateHistory  = addToHistory(s.stateHistory, newState) ],
             ok |-> TRUE, notified |-> TRUE,
             stateCalls |-> notifyStateChange(newState, s.currentState),
             eventCalls |-> emitConnectionEvent(newState) ]

\* The listener calls of forceSetState: notifyStateChange only.
forceSetStateCalls(s, newState) ==
  [ stateCalls |-> notifyStateChange(newState, s.currentState),
    eventCalls |-> << >> ]

\* forceSetState: no validation, always records and notifies.
forceSetState(s, newState) ==
  [ s EXCEPT !.previousState = s.currentState,
             !.currentState  = newState,
             !.stateHistory  = addToHistory(s.stateHistory, newState) ]

setQrCode(s, qrCode) == [ s EXCEPT !.currentQrCode = qrCode ]

\* reset keeps the QR code: only the states and the history are reset.
smReset(s) ==
  [ s EXCEPT !.currentState  = "disconnected",
             !.previousState = "disconnected",
             !.stateHistory  = addToHistory(<< >>, "disconnected") ]

isConnected(s)    == s.currentState = "connected"
isConnectingSM(s) == s.currentState \in { "connecting", "opening", "waiting_qr", "pairing" }
isError(s)        == s.currentState \in { "error", "timeout", "conflict", "deprecated_version",
                                          "proxyblock", "smb_tos_block", "tos_block" }
isDisconnected(s) == s.currentState \in { "disconnected", "unpaired", "unpaired_idle" }

\* ========================================================================
\* ReconnectionManager
\* ========================================================================

\* Reconnect functions a backoff timer can hold: the function passed by the
\* caller ("connect") and the placeholder of onReconnectionFailure, which
\* throws 'Reconnection function not provided for retry' ("dummy").
ReconnectFns == { "connect", "dummy" }

\* reconnectTimer is undefined, the handle of a pending timer (named by the
\* function that timer holds) or the handle of a timer that already fired
\* ("stale": truthy, and clearTimeout on it does nothing).
RM == [ reconnectAttempts |-> reconnectAttempts,
        isReconnecting    |-> isReconnecting,
        reconnectTimer    |-> reconnectTimer,
        timers            |-> timers,
        retryTimers       |-> retryTimers,
        maxReconnectAttempts |-> maxReconnectAttempts ]

SetRM(r) ==
  /\ reconnectAttempts' = r.reconnectAttempts
  /\ isReconnecting'    = r.isReconnecting
  /\ reconnectTimer'    = r.reconnectTimer
  /\ timers'            = r.timers
  /\ retryTimers'       = r.retryTimers
  /\ maxReconnectAttempts' = r.maxReconnectAttempts

\* The constructor copies config.maxReconnectAttempts.
RMInit ==
  [ reconnectAttempts |-> 0,
    isReconnecting    |-> FALSE,
    reconnectTimer    |-> "undefined",
    timers            |-> [ f \in ReconnectFns |-> 0 ],
    retryTimers       |-> 0,
    maxReconnectAttempts |-> ConfiguredMaxAttempts ]

\* The model keeps at most MaxTimers backoff timers and MaxRetryTimers
\* 1000 ms timers pending.
RMBounded(r) ==
  /\ r.timers["connect"] + r.timers["dummy"] <= MaxTimers
  /\ r.retryTimers <= MaxRetryTimers

startReconnectionNoMax(r, fn) ==
  IF r.isReconnecting
    THEN r
    ELSE [ r EXCEPT !.isReconnecting    = TRUE,
                    !.reconnectAttempts = @ + 1,
                    !.timers[fn]        = @ + 1,
                    !.reconnectTimer    = fn ]

\* startReconnection has no await: it runs to its end when it is called.
startReconnection(r, fn) ==
  IF r.isReconnecting
    THEN r
    ELSE IF r.reconnectAttempts >= r.maxReconnectAttempts
      THEN r
      ELSE [ r EXCEPT !.isReconnecting    = TRUE,
                      !.reconnectAttempts = @ + 1,
                      !.timers[fn]        = @ + 1,
                      !.reconnectTimer    = fn ]

\* What a startReconnection call did.
startOutcome(r) ==
  IF r.isReconnecting THEN "in_progress"
  ELSE IF r.reconnectAttempts >= r.maxReconnectAttempts THEN "max_attempts_reached"
  ELSE "reconnection_started"

stopReconnection(r) ==
  LET cleared ==
        IF r.reconnectTimer \in ReconnectFns
          THEN [ r EXCEPT !.timers[r.reconnectTimer] = @ - 1,
                          !.reconnectTimer = "undefined" ]
          ELSE [ r EXCEPT !.reconnectTimer = "undefined" ]
  IN  [ cleared EXCEPT !.isReconnecting = FALSE ]

rmReset(r) == [ stopReconnection(r) EXCEPT !.reconnectAttempts = 0 ]

\* Values of maxReconnectAttempts a caller of updateConfig passes, and a
\* partial configuration without that key.
ConfigValues == 0..(ConfiguredMaxAttempts + 1)

IntervalOnly == [ reconnectIntervalMs |-> 5000 ]

\* updateConfig: the copy is replaced when the key is given; the counter
\* and a cycle in flight are left as they are.  The interval only enters
\* the delays, which the model leaves open.
updateConfig(r, config) ==
  IF "maxReconnectAttempts" \in DOMAIN config
    THEN [ r EXCEPT !.maxReconnectAttempts = config.maxReconnectAttempts ]
    ELSE r

onReconnectionSuccess(r) == rmReset(r)

\* The last event the failure handler emits.
onReconnectionFailureEvent(r) ==
  IF r.reconnectAttempts < r.maxReconnectAttempts
    THEN "reconnection_failed"
    ELSE "max_attempts_reached"

onReconnectionFailureKeepsFlag(r) ==
  IF r.reconnectAttempts < r.maxReconnectAttempts
    THEN [ r EXCEPT !.retryTimers = @ + 1 ]
    ELSE r

\* The failure handler schedules the 1000 ms timeout when attempts remain.
onReconnectionFailure(r) ==
  LET r1 == [ r EXCEPT !.isReconnecting = FALSE ]
  IN  IF r1.reconnectAttempts < r1.maxReconnectAttempts
        THEN [ r1 EXCEPT !.retryTimers = @ + 1 ]
        ELSE r1

\* The callback of the 1000 ms timeout.
retryTimeout(r) ==
  IF ~r.isReconnecting THEN startReconnection(r, "dummy") ELSE r

\* A pending backoff timer holding fn leaves the pending set when it fires;
\* held tells whether it is the one reconnectTimer refers to.
timerFired(r, fn, held) ==
  [ r EXCEPT !.timers[fn] = @ - 1,
             !.reconnectTimer = IF held THEN "stale" ELSE @ ]

canFire(r, fn, held) ==
  IF held
    THEN r.reconnectTimer = fn /\ r.timers[fn] >= 1
    ELSE r.timers[fn] - (IF r.reconnectTimer = fn THEN 1 ELSE 0) >= 1

\* ---- error messages -----------------------------------------------------
\* A message is the sequence of its characters.
UpperChars == << "A", "B", "C", "D", "E", "F", "G", "H", "I", "J", "K", "L", "M", "N", "O", "P", "Q", "R", "S", "T", "U", "V", "W", "X", "Y", "Z" >>
LowerChars == << "a", "b", "c", "d", "e", "f", "g", "h", "i", "j", "k", "l", "m", "n", "o", "p", "q", "r", "s", "t", "u", "v", "w", "x", "y", "z" >>

toLowerChar(c) ==
  IF \E i \in 1..Len(UpperChars) : UpperChars[i] = c
    THEN LowerChars[CHOOSE i \in 1..Len(UpperChars) : UpperChars[i] = c]
    ELSE c

toLowerCaseIdentity(str) == str

toLowerCase(str) == [ i \in 1..Len(str) |-> toLowerChar(str[i]) ]

includes(str, sub) ==
  \E i \in 0..(Len(str) - Len(sub)) : SubSeq(str, i + 1, i + Len(sub)) = sub

nonRecoverableErrors ==
  { << "A", "U", "T", "H", "E", "N", "T", "I", "C", "A", "T", "I", "O", "N", "_", "F", "A", "I", "L", "U", "R", "E" >>,
    << "I", "N", "V", "A", "L", "I", "D", "_", "S", "E", "S", "S", "I", "O", "N" >>,
    << "B", "A", "N", "N", "E", "D" >>,
    << "D", "E", "P", "R", "E", "C", "A", "T", "E", "D" >> }

nonRecoverableStates == { "deprecated_version", "tos_block", "smb_tos_block" }
reconnectableStates  == { "disconnected", "error", "timeout", "conflict", "proxyblock" }

\* Error objects are named; errorMessage gives the message of each.
NoErr == "none"
errTimeout == "errTimeout"
errBanned  == "errBanned"
errInvalidSession == "errInvalidSession"
errDeprecated     == "errDeprecated"
errAuthFailure    == "errAuthFailure"
\* Errors the driver's initialize rejects with in the client specification.
DriverErrors == { errTimeout, errBanned }
\* Errors a caller of shouldReconnect passes.
Errors == DriverErrors \cup { errInvalidSession, errDeprecated, errAuthFailure }

errorMessage ==
  [ e \in Errors |->
      CASE e = errTimeout -> << "T", "i", "m", "e", "o", "u", "t" >>
        [] e = errBanned  -> << "B", "a", "n", "n", "e", "d" >>
        [] e = errInvalidSession -> << "x", " ", "I", "n", "v", "a", "l", "i", "d", "_", "S", "e", "s", "s", "i", "o", "n" >>
        [] e = errDeprecated     -> << "d", "e", "p", "r", "e", "c", "a", "t", "e", "d" >>
        [] e = errAuthFailure    -> << "A", "U", "T", "H", "E", "N", "T", "I", "C", "A", "T", "I", "O", "N", "_", "F", "A", "I", "L", "U", "R", "E" >> ]

\* nonRecoverableErrors.some(err => errorMessage.includes(err.toLowerCase()))
\* with errorMessage = error.message.toLowerCase()
matchesNonRecoverable(message) ==
  \E e \in nonRecoverableErrors : includes(toLowerCase(message), toLowerCase(e))

\* The errors whose message matches the deny-list.
DenyListed == { e \in Errors : matchesNonRecoverable(errorMessage[e]) }

shouldReconnect(r, state, error) ==
  IF r.reconnectAttempts >= r.maxReconnectAttempts THEN FALSE
  ELSE IF state \in nonRecoverableStates THEN FALSE
  ELSE IF error # NoErr /\ error \in DenyListed THEN FALSE
  ELSE state \in reconnectableStates

\* ---- suspended calls ----------------------------------------------------
\* A call of the reconnect function that has not ended for its caller: who
\* called it (the user or the callback of a backoff timer) and the await
\* it is suspended at.  For connect() that is the driver's initialize
\* ("init"), authStrategy.onAuthFailure ("auth", with the error being
\* handled), authStrategy.clearSession ("clear", with the error and the
\* shouldRestart answer it still holds) or the promise of its own
\* startReconnection call ("start").  A call of a timer callback that has
\* returned ("resolved") or thrown ("rejected") stays here until the
\* callback resumes from its await of the reconnect function.
ConnKinds ==
  [ origin : { "user", "timer" }, pc : { "init", "start" }, err : { NoErr },
    restart : { FALSE } ]
    \cup [ origin : { "user", "timer" }, pc : { "auth" }, err : DriverErrors,
           restart : { FALSE } ]
    \cup [ origin : { "user", "timer" }, pc : { "clear" }, err : DriverErrors,
           restart : BOOLEAN ]
    \cup [ origin : { "timer" }, pc : { "resolved", "rejected" }, err : { NoErr },
           restart : { FALSE } ]

\* The suspended calls are a bag of such records.
NoConns == EmptyBag

addConn(c, k) == c (+) SetToBag({ k })

dropConn(c, k) == c (-) SetToBag({ k })

connKind(origin, pc, err) ==
  [ origin |-> origin, pc |-> pc, err |-> err, restart |-> FALSE ]

clearKind(origin, err, restart) ==
  [ origin |-> origin, pc |-> "clear", err |-> err, restart |-> restart ]

\* Number of calls that have not ended.
connCount(c) == BagCardinality(c)

TimerInit == connKind("timer", "init", NoErr)

\* What the callback of a backoff timer awaits once its reconnect function
\* has returned or thrown.
settledKind(threw) ==
  connKind("timer", IF threw THEN "rejected" ELSE "resolved", NoErr)

\* ========================================================================
\* MessageManager
\* ========================================================================
MsgIds == 1..MaxMsgs
Chats == { "chatA", "chatB" }
\* options.maxRetries as given by the caller; 0 also stands for "not given"
MaxRetriesOptions == { 0, 1, 2 }

Absent == [ status |-> "absent" ]

MQ == [ messageQueue   |-> messageQueue,
        messageHistory |-> messageHistory,
        sends          |-> sends,
        evictions      |-> evictions,
        nextId         |-> nextId ]

SetMQ(q) ==
  /\ messageQueue'   = q.messageQueue
  /\ messageHistory' = q.messageHistory
  /\ sends'          = q.sends
  /\ evictions'      = q.evictions
  /\ nextId'         = q.nextId

MQInit ==
  [ messageQueue   |-> [ i \in MsgIds |-> Absent ],
    messageHistory |-> [ c \in Chats |-> << >> ],
    sends          |-> [ i \in MsgIds |-> 0 ],
    evictions      |-> [ i \in MsgIds |-> 0 ],
    nextId         |-> 1 ]

MQFresh ==
  /\ messageQueue   = MQInit.messageQueue
  /\ messageHistory = MQInit.messageHistory
  /\ sends          = MQInit.sends
  /\ evictions      = MQInit.evictions
  /\ nextId         = MQInit.nextId

\* A QueuedMessage object exists from queueOutgoingMessage on; inMap tells
\* whether the messageQueue map still holds it.  A suspended
\* sendQueuedMessage call keeps the object it read at its start, also after
\* the 5000 ms timer removed the id from the map.
inQueue(q, messageId) ==
  /\ q.messageQueue[messageId] # Absent
  /\ q.messageQueue[messageId].inMap

\* An object that is neither in the map nor held by a suspended call is
\* garbage.
collect(q, messageId) ==
  IF /\ q.messageQueue[messageId] # Absent
     /\ ~q.messageQueue[messageId].inMap
     /\ q.sends[messageId] = 0
    THEN [ q EXCEPT !.messageQueue[messageId] = Absent ]
    ELSE q

\* queueOutgoingMessage: maxRetries is options.maxRetries || 3.
queueOutgoingMessage(q, to, maxRetriesOpt) ==
  [ q EXCEPT !.messageQueue[q.nextId] =
               [ status     |-> "queued",
                 to         |-> to,
                 options    |-> [ maxRetries |-> maxRetriesOpt ],
                 retryCount |-> 0,
                 maxRetries |-> IF maxRetriesOpt = 0 THEN defaultMaxRetries
                                                     ELSE maxRetriesOpt,
                 lastError  |-> Null,
                 inMap      |-> TRUE ],
             !.nextId = @ + 1 ]

addToChatHistoryNoLimit(h, chatId, message) ==
  [ h EXCEPT ![chatId] = Append(h[chatId], message) ]

\* MessageManager.addToHistory for a message of chat chatId.
addToChatHistory(h, chatId, message) ==
  LET pushed == Append(h[chatId], message)
  IN  [ h EXCEPT ![chatId] =
          IF Len(pushed) > maxHistoryPerChat
            THEN SubSeq(pushed, Len(pushed) - maxHistoryPerChat + 1, Len(pushed))
            ELSE pushed ]

\* validateMessage of a parsed message: id, from, to and type must be
\* truthy and the timestamp a number (parseMessageType always returns a
\* type, so that conjunct is always true and the record carries no type).
validateMessageSenderOnly(message) == message.from # ""

validateMessage(message) ==
  /\ message.id # ""
  /\ message.from # ""
  /\ message.to # ""
  /\ message.timestamp = "number"

\* What a raw message carries as its timestamp: nothing (or a falsy
\* value), a number, or a non-empty string.
TimestampKinds == { "absent", "number", "string" }

\* Raw messages of the driver: "" stands for a field the raw message lacks.
RawMessages ==
  [ id : { "", "wa1" }, from : Chats \cup { "" }, author : { "", "chatB" },
    to : Chats \cup { "" }, chatId : { "", "chatA" }, fromMe : BOOLEAN,
    timestamp : TimestampKinds ]

\* What generateMessageId() returns: a non-empty string.
generatedMessageId == "msg_generated"

\* a || b of JavaScript on strings: b when a is empty.
orElse(a, b) == IF a # "" THEN a ELSE b

\* parseMessage: the fields of the canonical record that validateMessage
\* and addToHistory read.  timestamp is rawMessage.timestamp || Date.now():
\* the kind of the raw value, a number when the raw message has none.
parseMessage(raw) ==
  [ id        |-> orElse(raw.id, generatedMessageId),
    from      |-> orElse(raw.from, orElse(raw.author, "")),
    to        |-> orElse(raw.to, orElse(raw.chatId, "")),
    timestamp |-> IF raw.timestamp = "absent" THEN "number" ELSE raw.timestamp,
    fromMe    |-> raw.fromMe ]

\* What processIncomingMessage returns for a raw message: the id of the
\* parsed message, or null.
processIncomingResult(raw) ==
  LET m == parseMessage(raw)
  IN  IF validateMessage(m) THEN m.id ELSE Null

\* processIncomingMessage for a raw message: a message that validateMessage
\* refuses changes nothing; addToHistory files the others under
\* message.fromMe ? message.to : message.from.  Messages of the driver
\* carry the driver's id, which is no id of the outgoing queue (0 here).
processIncomingMessage(q, raw) ==
  LET m == parseMessage(raw)
  IN  IF ~validateMessage(m)
        THEN q
        ELSE [ q EXCEPT !.messageHistory =
                 addToChatHistory(@, IF m.fromMe THEN m.to ELSE m.from,
                                  [ id |-> 0, fromMe |-> m.fromMe ]) ]

\* clearHistory(chatId): the chat's entry is deleted from the map (a chat
\* without entry reads as the empty history).
clearHistory(q, chatId) == [ q EXCEPT !.messageHistory[chatId] = << >> ]

\* sendQueuedMessage up to the await of sendFunction: accepted tells
\* whether sendFunction was invoked (otherwise the call returned false).
sendQueuedMessageStartNoGuard(q, messageId) ==
  IF ~inQueue(q, messageId)
    THEN [ mq |-> q, accepted |-> FALSE ]
    ELSE [ mq |-> [ q EXCEPT !.messageQueue[messageId].status = "sending",
                             !.sends[messageId] = @ + 1 ],
           accepted |-> TRUE ]

sendQueuedMessageStart(q, messageId) ==
  IF ~inQueue(q, messageId)
    THEN [ mq |-> q, accepted |-> FALSE ]
    ELSE IF q.messageQueue[messageId].status = "sending"
      THEN [ mq |-> q, accepted |-> FALSE ]
      ELSE [ mq |-> [ q EXCEPT !.messageQueue[messageId].status = "sending",
                               !.sends[messageId] = @ + 1 ],
             accepted |-> TRUE ]

sendQueuedMessageResolvedNoHistory(q, messageId) ==
  collect([ q EXCEPT !.sends[messageId] = @ - 1,
                     !.messageQueue[messageId].status = "sent",
                     !.evictions[messageId] = @ + 1 ],
          messageId)

\* sendQueuedMessage after sendFunction resolved; it returns true.
sendQueuedMessageResolved(q, messageId) ==
  collect([ q EXCEPT !.sends[messageId] = @ - 1,
                     !.messageHistory =
                         addToChatHistory(@, q.messageQueue[messageId].to,
                                          [ id |-> messageId, fromMe |-> TRUE ]),
                     !.messageQueue[messageId].status = "sent",
                     !.evictions[messageId] = @ + 1 ],
          messageId)

\* sendQueuedMessage after sendFunction rejected; it returns false.
sendQueuedMessageRejected(q, messageId) ==
  LET m  == q.messageQueue[messageId]
      rc == m.retryCount + 1
  IN  collect([ q EXCEPT !.sends[messageId] = @ - 1,
                         !.messageQueue[messageId] =
                             [ m EXCEPT !.retryCount = rc,
                                        !.lastError  = "error",
                                        !.status     = IF rc >= m.maxRetries
                                                         THEN "failed" ELSE "queued" ] ],
              messageId)

\* The event the catch block of sendQueuedMessage emits.
sendFailureEvent(q, messageId) ==
  IF q.messageQueue[messageId].retryCount + 1 >= q.messageQueue[messageId].maxRetries
    THEN "message_failed" ELSE "message_retry"

dispatchOutcomeRethrow(ending) ==
  [ threw |-> ending = "rejected", result |-> ending = "resolved" ]

\* How a sendQueuedMessage call ends for its caller.  ending is "refused"
\* (unknown id or already sending), "resolved" or "rejected" (what
\* sendFunction did): the catch block returns false and does not rethrow.
dispatchOutcome(ending) ==
  [ threw |-> FALSE, result |-> ending = "resolved" ]

\* getQueuedMessages and getPendingMessages, as sets of message ids.
getQueuedMessages(q) == { i \in MsgIds : inQueue(q, i) }

getPendingMessages(q, chatId) ==
  { i \in getQueuedMessages(q) :
      /\ q.messageQueue[i].to = chatId
      /\ q.messageQueue[i].status # "sent"
      /\ q.messageQueue[i].status # "failed" }

cancelResultNoGuard(q, messageId) ==
  inQueue(q, messageId)

\* cancelMessage: the returned boolean is cancelResult.
cancelResult(q, messageId) ==
  /\ inQueue(q, messageId)
  /\ q.messageQueue[messageId].status # "sending"

cancelMessage(q, messageId) ==
  IF cancelResult(q, messageId)
    THEN collect([ q EXCEPT !.messageQueue[messageId].status = "cancelled",
                            !.messageQueue[messageId].inMap = FALSE ],
                 messageId)
    ELSE q

\* The callback of the 5000 ms timer set after a successful send.
evictTimeout(q, messageId) ==
  LET q1 == [ q EXCEPT !.evictions[messageId] = @ - 1 ]
  IN  IF inQueue(q, messageId)
        THEN collect([ q1 EXCEPT !.messageQueue[messageId].inMap = FALSE ], messageId)
        ELSE q1

\* ========================================================================
\* WhatsAppClient
\* ========================================================================

\* The client with its state manager and its reconnection manager.
W == [ sm            |-> SM,
       rm            |-> RM,
       conns         |-> conns,
       isInitialized |-> isInitialized,
       isConnecting  |-> isConnecting,
       client        |-> client,
       driverLive    |-> driverLive,
       disconnects   |-> disconnects,
       listeners     |-> listeners ]

SetW(w) ==
  /\ SetSM(w.sm)
  /\ SetRM(w.rm)
  /\ conns'         = w.conns
  /\ isInitialized' = w.isInitialized
  /\ isConnecting'  = w.isConnecting
  /\ client'        = w.client
  /\ driverLive'    = w.driverLive
  /\ disconnects'   = w.disconnects
  /\ listeners'     = w.listeners

\* After the constructor: setupEventHandlers registered the 'internal'
\* listeners, the user registered nothing.
ListenersInit ==
  [ stateListeners |-> TRUE, clientEvents |-> { },
    stateEvents |-> { }, messageListeners |-> { } ]

\* The id under which the user registers callbacks.
ListenerIds == { "listenerA" }

\* No driver has been created.
ClientFresh ==
  /\ isInitialized = FALSE
  /\ isConnecting  = FALSE
  /\ client        = FALSE
  /\ driverLive    = << >>
  /\ disconnects   = << >>
  /\ listeners     = ListenersInit

\* The drivers are numbered in the order initialize() created them;
\* this.client is the one created last, and nothing ever clears it.
currentDriver(w) == Len(w.driverLive)

\* Some driver is running: every driver carries the callbacks that
\* setupClientEventHandlers registered on it when it was this.client.
anyDriverLive(w) == \E d \in DOMAIN w.driverLive : w.driverLive[d]

noDisconnects(w) == \A d \in DOMAIN w.disconnects : w.disconnects[d] = 0

RECURSIVE sumSeq(_, _)
sumSeq(s, n) == IF n = 0 THEN 0 ELSE s[n] + sumSeq(s, n - 1)

\* Number of destroy() calls that have not returned.
pendingDestroys(w) == sumSeq(w.disconnects, Len(w.disconnects))

\* The model keeps at most MaxConns calls of the reconnect function and
\* at most MaxDestroys calls of destroy() unfinished, and follows a session
\* until its transition history has MaxHistory entries (MaxObservedHistory
\* in the observed runs).
WBounded(w) ==
  /\ RMBounded(w.rm)
  /\ connCount(w.conns) <= MaxConns
  /\ pendingDestroys(w) <= MaxDestroys
  /\ Len(w.sm.stateHistory) <= IF observing THEN MaxObservedHistory ELSE MaxHistory

\* The 'internal' state-change listener registered by setupEventHandlers.
\* It runs inside setState / forceSetState, after the state was changed.
internalListener(w) ==
  IF isError(w.sm) \/ isDisconnected(w.sm)
    THEN IF shouldReconnect(w.rm, w.sm.currentState, NoErr)
           THEN [ w EXCEPT !.rm = startReconnection(w.rm, "connect") ]
           ELSE w
    ELSE w

\* stateManager.setState as the client sees it: the listener, while it is
\* registered, is notified when the state changed.
clientSetState(w, newState) ==
  LET r  == setState(w.sm, newState)
      w1 == [ w EXCEPT !.sm = r.sm ]
  IN  IF r.notified /\ w1.listeners.stateListeners THEN internalListener(w1) ELSE w1

clientForceSetState(w, newState) ==
  LET w1 == [ w EXCEPT !.sm = forceSetState(w.sm, newState) ]
  IN  IF w1.listeners.stateListeners THEN internalListener(w1) ELSE w1

\* initialize() where it awaits.  A call that finds isInitialized false
\* is suspended in authStrategy.initialize(), then in the import of the
\* driver's module; after the import it creates a driver, assigns it to
\* this.client, registers the driver callbacks on it
\* (setupClientEventHandlers) and sets isInitialized.  b counts the
\* suspended calls, the drivers created and the registrations made.
initializeStart(w, b) ==
  IF w.isInitialized THEN b ELSE [ b EXCEPT !.auth = @ + 1 ]

initializeAuthDone(b, ok) ==
  IF ok THEN [ b EXCEPT !.auth = @ - 1, !.import = @ + 1 ]
        ELSE [ b EXCEPT !.auth = @ - 1 ]

initializeImported(w, b, ok) ==
  IF ok
    THEN [ w |-> [ w EXCEPT !.client = TRUE, !.isInitialized = TRUE,
                            !.driverLive  = Append(@, FALSE),
                            !.disconnects = Append(@, 0) ],
           b |-> [ b EXCEPT !.import = @ - 1, !.drivers = @ + 1,
                            !.registrations = @ + 1 ] ]
    ELSE [ w |-> w, b |-> [ b EXCEPT !.import = @ - 1 ] ]

\* connect() up to the await of the driver's initialize.  outcome is
\* "threw" (not initialized), "returned" (connection already in progress)
\* or "suspended" (waiting for the driver).
connectStart(w, origin) ==
  IF ~w.isInitialized THEN [ w |-> w, outcome |-> "threw" ]
  ELSE IF w.isConnecting THEN [ w |-> w, outcome |-> "returned" ]
  ELSE IF ~w.client THEN [ w |-> w, outcome |-> "threw" ]
  ELSE LET w1 == clientSetState([ w EXCEPT !.isConnecting = TRUE ], "connecting")
       IN  [ w |-> [ w1 EXCEPT !.driverLive[currentDriver(w)] = TRUE,
                               !.conns = addConn(@, connKind(origin, "init", NoErr)) ],
             outcome |-> "suspended" ]

\* connect() has returned or thrown.  The user's call is over; the
\* callback of a backoff timer awaits the promise and resumes later.
connectEnded(w, origin, threw) ==
  IF origin = "timer"
    THEN [ w EXCEPT !.conns = addConn(@, settledKind(threw)) ]
    ELSE w

\* The callback of a backoff timer resumes from its await of the
\* reconnect function.
timerCallbackResumes(r, threw) ==
  IF threw THEN onReconnectionFailure(r) ELSE onReconnectionSuccess(r)

\* connect() after the driver's initialize resolved: it returns.
connectResolved(w, origin) ==
  connectEnded([ w EXCEPT !.conns = dropConn(@, connKind(origin, "init", NoErr)) ],
               origin, FALSE)

\* connect() after the driver's initialize rejected, up to the await of
\* authStrategy.onAuthFailure.
connectRejected(w, origin, error) ==
  LET w1 == [ w EXCEPT !.conns = dropConn(@, connKind(origin, "init", NoErr)),
                       !.isConnecting = FALSE ]
      w2 == clientSetState(w1, "error")
  IN  [ w2 EXCEPT !.conns = addConn(@, connKind(origin, "auth", error)) ]

\* Whether the catch block of connect() ends by throwing, given that a
\* retry was scheduled or not: the throw statement is unconditional.
catchThrowsUnlessScheduled(scheduled) == ~scheduled

catchThrows(scheduled) == TRUE

\* What onAuthFailure answers.
AuthResults == [ shouldRestart : BOOLEAN, shouldClearSession : BOOLEAN ]

\* The catch block once onAuthFailure and clearSession are behind it: it
\* calls startReconnection when it was told to restart and shouldReconnect
\* agrees, and awaits that call; otherwise it goes on to the throw.
\* ended tells whether connect() ended in this step.
connectCatchRestart(w, origin, error, shouldRestart) ==
  IF shouldRestart /\ shouldReconnect(w.rm, "error", error)
    THEN [ w |-> [ w EXCEPT !.rm = startReconnection(w.rm, "connect"),
                            !.conns = addConn(@, connKind(origin, "start", NoErr)) ],
           ended |-> FALSE, threw |-> FALSE ]
    ELSE [ w |-> connectEnded(w, origin, catchThrows(FALSE)),
           ended |-> TRUE, threw |-> catchThrows(FALSE) ]

\* The catch block after onAuthFailure returned authResult or threw: a
\* throw of the strategy leaves connect() at once.
connectAuthAnswered(w, origin, error, authResult, authThrew) ==
  LET w1 == [ w EXCEPT !.conns = dropConn(@, connKind(origin, "auth", error)) ]
  IN  IF authThrew
        THEN [ w |-> connectEnded(w1, origin, TRUE), ended |-> TRUE, threw |-> TRUE ]
      ELSE IF authResult.shouldClearSession
        THEN [ w |-> [ w1 EXCEPT !.conns = addConn(@, clearKind(origin, error, authResult.shouldRestart)) ],
               ended |-> FALSE, threw |-> FALSE ]
      ELSE connectCatchRestart(w1, origin, error, authResult.shouldRestart)

\* The catch block after clearSession returned or threw.
connectSessionCleared(w, origin, error, shouldRestart, clearThrew) ==
  LET w1 == [ w EXCEPT !.conns = dropConn(@, clearKind(origin, error, shouldRestart)) ]
  IN  IF clearThrew
        THEN [ w |-> connectEnded(w1, origin, TRUE), ended |-> TRUE, threw |-> TRUE ]
        ELSE connectCatchRestart(w1, origin, error, shouldRestart)

\* The catch block after its await of startReconnection: the throw.
connectCatchThrow(w, origin) ==
  LET w1 == [ w EXCEPT !.conns = dropConn(@, connKind(origin, "start", NoErr)) ]
  IN  [ w |-> connectEnded(w1, origin, catchThrows(TRUE)), threw |-> catchThrows(TRUE) ]

\* disconnect() up to the await of the driver's destroy, which it calls on
\* this.client when there is one.
disconnectStart(w) ==
  LET w1 == [ w EXCEPT !.rm = stopReconnection(w.rm),
                       !.sm = setQrCode(w.sm, Null) ]
  IN  IF w.client
        THEN [ w1 EXCEPT !.disconnects[currentDriver(w)] = @ + 1 ]
        ELSE w1

\* The destroy of driver d returned; d = 0 when there was no driver to
\* destroy.
driverDestroyed(w, d) ==
  IF d = 0 THEN w
  ELSE [ w EXCEPT !.disconnects[d] = @ - 1, !.driverLive[d] = FALSE ]

\* disconnect() after destroy returned (or was skipped: no client).
disconnectDone(w, d) ==
  LET w1 == clientSetState(driverDestroyed(w, d), "disconnected")
  IN  [ w1 EXCEPT !.isConnecting = FALSE ]

disconnectFailedNoForce(w, d) == [ w EXCEPT !.disconnects[d] = @ - 1 ]

\* disconnect() after the destroy of driver d threw: the catch block.
disconnectFailed(w, d) ==
  clientForceSetState([ w EXCEPT !.disconnects[d] = @ - 1 ], "disconnected")

\* How disconnect() ends for its caller: the catch block logs the failure
\* of destroy and does not rethrow.
disconnectOutcome(destroyThrew) == "resolved"

\* ---- sendMessage() -----------------------------------------------------------
sendMessageStartNoGuard(w, q, to, maxRetriesOpt) ==
  [ mq |-> queueOutgoingMessage(q, to, maxRetriesOpt), outcome |-> "suspended",
    events |-> << "message_queued" >> ]

\* sendMessage() up to its await of queueOutgoingMessage, or to the error
\* it throws before: outcome is the code of that error or "suspended",
\* events the message events emitted.  The message enqueued has the id
\* q.nextId.
sendMessageStart(w, q, to, maxRetriesOpt) ==
  IF ~isConnected(w.sm)
    THEN [ mq |-> q, outcome |-> "NOT_CONNECTED", events |-> << >> ]
  ELSE IF ~w.client
    THEN [ mq |-> q, outcome |-> "CLIENT_NOT_AVAILABLE", events |-> << >> ]
  ELSE [ mq |-> queueOutgoingMessage(q, to, maxRetriesOpt), outcome |-> "suspended",
         events |-> << "message_queued" >> ]

\* sendMessage() from that await on: it calls sendQueuedMessage, which
\* invokes the driver's send and suspends, or returns false, and then
\* sendMessage() throws MESSAGE_SEND_ERROR.
sendMessageDispatch(q, messageId) ==
  LET r == sendQueuedMessageStart(q, messageId)
  IN  IF r.accepted
        THEN [ mq |-> r.mq, outcome |-> "suspended", events |-> << "message_sending" >> ]
        ELSE [ mq |-> r.mq, outcome |-> "MESSAGE_SEND_ERROR", events |-> << >> ]

\* ---- cleanup() -------------------------------------------------------------
\* clearAllListeners of the three managers; the state manager loses the
\* client's 'internal' listener.  The client's own eventListeners map is
\* not touched.
clearAllListeners(w) ==
  [ w EXCEPT !.listeners = [ @ EXCEPT !.stateListeners   = FALSE,
                                      !.stateEvents      = { },
                                      !.messageListeners = { } ] ]

\* ---- listener registration -------------------------------------------------
onConnectionEvent(w, id) ==
  [ w EXCEPT !.listeners = [ @ EXCEPT !.clientEvents = @ \cup { id },
                                      !.stateEvents  = @ \cup { id } ] ]

offConnectionEvent(w, id) ==
  [ w EXCEPT !.listeners = [ @ EXCEPT !.clientEvents = @ \ { id },
                                      !.stateEvents  = @ \ { id } ] ]

onMessageEvent(w, id) ==
  [ w EXCEPT !.listeners = [ @ EXCEPT !.messageListeners = @ \cup { id } ] ]

\* removeEventListener(id): the id is deleted from the client's map and
\* from the maps of the three managers (the reconnection manager's
\* listeners only log).
removeEventListener(w, id) ==
  [ w EXCEPT !.listeners = [ @ EXCEPT !.clientEvents     = @ \ { id },
                                      !.stateEvents      = @ \ { id },
                                      !.messageListeners = @ \ { id } ] ]

\* The state the handler of a driver event passes to setState.
handlerTarget(ev) ==
  CASE ev = "qr"            -> "waiting_qr"
    [] ev = "ready"         -> "connected"
    [] ev = "authenticated" -> "pairing"
    [] ev = "auth_failure"  -> "error"
    [] ev = "disconnected"  -> "disconnected"

\* Whether the handler of driver event ev invokes a callback the user
\* registered through onConnectionEvent: through the state manager's
\* connection event when setState changes the state, and directly, from
\* the client's eventListeners, in the qr, authenticated and auth_failure
\* handlers.
connectionCallbackInvoked(w, ev) ==
  \/ w.listeners.stateEvents # { } /\ setState(w.sm, handlerTarget(ev)).notified
  \/ w.listeners.clientEvents # { } /\ ev \in { "qr", "authenticated", "auth_failure" }

\* cleanup() up to its first await: pc tells where it is suspended, in
\* the destroy of its disconnect() call ("disconnect"), at its await of
\* disconnect() when that call has ended ("disconnected"), or in
\* authStrategy.cleanup() ("auth").
cleanupStart(w) ==
  IF isConnected(w.sm) \/ w.isConnecting
    THEN LET w1 == disconnectStart(w)
         IN  IF w.client
               THEN [ w |-> w1, pc |-> "disconnect" ]
               ELSE [ w |-> disconnectDone(w1, 0), pc |-> "disconnected" ]
    ELSE [ w |-> clearAllListeners(w), pc |-> "auth" ]

\* The disconnect() call of cleanup() ends, after the destroy of driver d
\* returned or threw.
cleanupDisconnected(w, d, destroyThrew) ==
  IF destroyThrew THEN disconnectFailed(w, d) ELSE disconnectDone(w, d)

\* cleanup() from its await of disconnect() to the await of
\* authStrategy.cleanup().
cleanupResumed(w) == clearAllListeners(w)

\* cleanup() after authStrategy.cleanup() returned or threw: a throw skips
\* the assignment of isInitialized and is caught.
cleanupAuthDone(w, authThrew) ==
  IF authThrew THEN w ELSE [ w EXCEPT !.isInitialized = FALSE ]

\* How cleanup() ends for its caller: the catch block does not rethrow.
cleanupOutcome(authThrew) == "resolved"

\* ---- driver callbacks registered by setupClientEventHandlers -------------
onQr(w, qr) ==
  LET w1 == clientSetState(w, "waiting_qr")
  IN  [ w1 EXCEPT !.sm = setQrCode(w1.sm, qr) ]

onReady(w) ==
  LET w1 == clientSetState(w, "connected")
  IN  [ w1 EXCEPT !.isConnecting = FALSE, !.rm = rmReset(w1.rm) ]

onAuthenticated(w) ==
  LET w1 == clientSetState(w, "pairing")
  IN  [ w1 EXCEPT !.sm = setQrCode(w1.sm, Null) ]

onAuthFailureEvent(w) ==
  [ clientSetState(w, "error") EXCEPT !.isConnecting = FALSE ]

onDisconnected(w) ==
  [ clientSetState(w, "disconnected") EXCEPT !.isConnecting = FALSE ]

\* ---- observations ---------------------------------------------------------
\* Scenario A as a script of the environment: the user calls connect()
\* once, the driver's initialize fails twice with a transient error and
\* then succeeds, and the driver reports ready.  Any other input of the
\* user or of the driver takes the run off the script.
scenarioNext(s, ev) ==
  CASE s = "start" /\ ev = "initialize"  -> "start"
    [] s = "start" /\ ev = "userConnect" -> "c1"
    [] s = "c1"    /\ ev = "initFailed"  -> "f1"
    [] s = "f1"    /\ ev = "initFailed"  -> "f2"
    [] s = "f2"    /\ ev = "initOk"      -> "ok3"
    [] s = "ok3"   /\ ev = "ready"       -> "done"
    [] OTHER -> "off"

Observe(old, new) == IF observing THEN new ELSE old

ObsFresh ==
  /\ scenario = "start"
  /\ afterDisconnect = FALSE
  /\ rmConnects = 0

\* rmConnects restarts from zero whenever the lifecycle is connected.
countConnects(w, n) == IF isConnected(w.sm) THEN 0 ELSE n

\* rmConnects counts the connect() calls of the backoff timers up to
\* MaxCountedConnects and stays there.
countedConnect(n) == IF n < MaxCountedConnects THEN n + 1 ELSE n

\* ========================================================================
\* Specification SpecSM: the state manager driven directly by a caller
\* ========================================================================
SM_SetState(T) ==
  /\ calls < MaxSmCalls
  /\ LET r == setState(SM, T)
     IN  /\ SetSM(r.sm)
         /\ lastCall' = [ op |-> "setState", from |-> currentState, to |-> T,
                          result |-> r.ok,
                          stateCalls |-> r.stateCalls, eventCalls |-> r.eventCalls ]
  /\ calls' = calls + 1
  /\ UNCHANGED notSM

SM_ForceSetState(T) ==
  /\ calls < MaxSmCalls
  /\ SetSM(forceSetState(SM, T))
  /\ lastCall' = [ op |-> "forceSetState", from |-> currentState, to |-> T,
                   stateCalls |-> forceSetStateCalls(SM, T).stateCalls,
                   eventCalls |-> forceSetStateCalls(SM, T).eventCalls ]
  /\ calls' = calls + 1
  /\ UNCHANGED notSM

SM_SetQrCode(q) ==
  /\ SetSM(setQrCode(SM, q))
  /\ lastCall' = [ op |-> "setQrCode", to |-> q ]
  /\ UNCHANGED << notSM, calls >>

SM_Reset ==
  /\ calls < MaxSmCalls
  /\ SetSM(smReset(SM))
  /\ lastCall' = [ op |-> "reset" ]
  /\ calls' = calls + 1
  /\ UNCHANGED notSM

\* No initialize() and no cleanup() in progress, no request being served.
BootInit == [ auth |-> 0, import |-> 0, drivers |-> 0, registrations |-> 0 ]

\* The cleanup() calls in progress: a bag of records telling where each is
\* suspended and, for one that awaits a destroy, of which driver.
TeardownInit == EmptyBag

cleanupAt(pc, d) == [ pc |-> pc, driver |-> d ]

EnvFresh ==
  /\ boot = BootInit
  /\ teardown = TeardownInit
  /\ handoffs = { }
  /\ route = "unused"

SMFresh ==
  /\ currentState  = SMInit.currentState
  /\ previousState = SMInit.previousState
  /\ currentQrCode = SMInit.currentQrCode
  /\ stateHistory  = SMInit.stateHistory

RMFresh ==
  /\ reconnectAttempts = RMInit.reconnectAttempts
  /\ isReconnecting    = RMInit.isReconnecting
  /\ reconnectTimer    = RMInit.reconnectTimer
  /\ timers            = RMInit.timers
  /\ retryTimers       = RMInit.retryTimers
  /\ maxReconnectAttempts = RMInit.maxReconnectAttempts

InitSM ==
  /\ SMFresh
  /\ RMFresh
  /\ conns = NoConns
  /\ MQFresh
  /\ ClientFresh
  /\ EnvFresh
  /\ ObsFresh
  /\ observing = FALSE
  /\ lastCall = NoCall
  /\ calls = 0

NextSM ==
  \/ \E T \in WhatsAppStatus : SM_SetState(T)
  \/ \E T \in WhatsAppStatus : SM_ForceSetState(T)
  \/ \E q \in QrCodes \cup { Null } : SM_SetQrCode(q)
  \/ SM_Reset

SpecSM == InitSM /\ [][NextSM]_vars

\* C1: setState(T) called in state S returns true iff T = S or T is in the
\* legal-transition set of S; on true the current state is T afterwards, on
\* false it is still S.
C1_SetStateIff ==
  lastCall.op = "setState" =>
    /\ lastCall.result =
         (lastCall.to = lastCall.from \/ lastCall.to \in validTransitions[lastCall.from])
    /\ lastCall.result => currentState = lastCall.to
    /\ ~lastCall.result => currentState = lastCall.from

\* setState('connected') was called in state connected, which the table
\* does not list for itself, and returned true.
C1_Witness ==
  /\ lastCall.op = "setState"
  /\ lastCall.to = lastCall.from
  /\ lastCall.from = "connected"
  /\ lastCall.result
  /\ currentState = "connected"

\* C17: a setState call that is rejected or that targets the current state
\* leaves the current state, the previous state and the transition history
\* unchanged and notifies no state-change listener and no event listener.
C17_RejectedOrSameIsNoop ==
  [][ ( /\ lastCall'.op = "setState"
        /\ ( ~lastCall'.result \/ lastCall'.to = lastCall'.from ) )
      => ( /\ UNCHANGED << currentState, previousState, stateHistory >>
           /\ lastCall'.stateCalls = << >>
           /\ lastCall'.eventCalls = << >> ) ]_vars

\* setState towards the current state was called after a real transition
\* and returned true.
C17_Witness ==
  /\ lastCall.op = "setState"
  /\ lastCall.to = lastCall.from
  /\ lastCall.result
  /\ currentState = "connecting"
  /\ previousState = "disconnected"
  /\ stateHistory = << "disconnected", "connecting" >>

\* C19 as stated: from error, timeout, conflict and proxyblock setState
\* accepts disconnected, connecting and opening.
C19_RecoveryTargets ==
  ( /\ lastCall.op = "setState"
    /\ lastCall.from \in { "error", "timeout", "conflict", "proxyblock" }
    /\ lastCall.to \in { "disconnected", "connecting", "opening" } )
  => lastCall.result

\* C19 as amended: from error and timeout setState accepts disconnected,
\* connecting and opening; from conflict and proxyblock it accepts
\* disconnected and connecting and rejects opening.
C19_RecoveryTargetsByState ==
  lastCall.op = "setState"
    => /\ ( /\ lastCall.from \in { "error", "timeout" }
            /\ lastCall.to \in { "disconnected", "connecting", "opening" } )
          => lastCall.result
       /\ ( /\ lastCall.from \in { "conflict", "proxyblock" }
            /\ lastCall.to \in { "disconnected", "connecting" } )
          => lastCall.result
       /\ ( /\ lastCall.from \in { "conflict", "proxyblock" }
            /\ lastCall.to = "opening" )
          => ~lastCall.result

\* setState('opening') was called in state conflict and rejected.
C19_Witness ==
  /\ lastCall.op = "setState"
  /\ lastCall.from = "conflict"
  /\ lastCall.to = "opening"
  /\ ~lastCall.result
  /\ currentState = "conflict"

\* C20: every change of the lifecycle state, by setState or by
\* forceSetState, appends exactly one record to the transition history and
\* notifies the state-change listeners once with (new, old) and the event
\* listeners once with a state_changed event.
C20_ChangeNotifiesBoth ==
  [][ ( /\ lastCall'.op \in { "setState", "forceSetState" }
        /\ currentState' # currentState )
      => ( /\ Len(stateHistory) < maxHistorySize
              => stateHistory' = Append(stateHistory, currentState')
           /\ lastCall'.stateCalls = << << currentState', currentState >> >>
           /\ lastCall'.eventCalls =
                << [ type |-> "state_changed", state |-> currentState' ] >> ) ]_vars

\* ---- SpecSMLong: the same manager, started with a long history ----------
\* The history after n - 1 transitions alternating between connecting and
\* disconnected (both legal), which the constructor's entry precedes.
alternatingHistory(n) ==
  [ k \in 1..n |-> IF k % 2 = 1 THEN "disconnected" ELSE "connecting" ]

InitSMLong ==
  /\ \E n \in HistoryStart..maxHistorySize :
       /\ stateHistory  = alternatingHistory(n)
       /\ currentState  = alternatingHistory(n)[n]
       /\ previousState = alternatingHistory(n)[n - 1]
  /\ currentQrCode = Null
  /\ RMFresh
  /\ conns = NoConns
  /\ MQFresh
  /\ ClientFresh
  /\ EnvFresh
  /\ ObsFresh
  /\ observing = FALSE
  /\ lastCall = NoCall
  /\ calls = 0

SpecSMLong == InitSMLong /\ [][NextSM]_vars

\* C18: the transition history never holds more than 50 entries; an append
\* to a full history evicts the oldest entry and keeps the order of the
\* others; reset leaves the single entry of a fresh manager.
C18_HistoryCapped ==
  /\ [](Len(stateHistory) <= 50)
  /\ [][ ( ( \/ lastCall'.op = "forceSetState"
             \/ ( lastCall'.op = "setState" /\ currentState' # currentState ) )
           => stateHistory' =
                ( IF Len(stateHistory) = 50
                    THEN Append(Tail(stateHistory), currentState')
                    ELSE Append(stateHistory, currentState') ) )
         /\ ( lastCall'.op = "reset" => stateHistory' = << "disconnected" >> ) ]_vars

\* The 51st entry was recorded: the history holds 50 entries, the former
\* second entry is now the first.
C18_Witness ==
  /\ lastCall.op = "setState"
  /\ lastCall.from = "connecting"
  /\ lastCall.to = "connected"
  /\ Len(stateHistory) = 50
  /\ stateHistory[1] = "connecting"
  /\ stateHistory[50] = "connected"
  /\ calls = 1

\* ---- SpecSMObserved: the manager with observers -------------------------
\* Two state-change listeners and two event listeners are registered; the
\* Maps call them in registration order.  The second of each kind only
\* records what it receives.  The first may react to one state: when it is
\* told that the state became reaction.on it calls setState(reaction.call)
\* from within the notification, as an observer calling connect() does
\* (connect() calls setState('connecting') before its first await).
NoReaction == [ kind |-> "none" ]

Reactions ==
  [ kind : { "state", "event" }, on : { "error", "disconnected" }, call : { "connecting" } ]
    \cup { NoReaction }

\* setState with these observers: every listener is called inside the
\* forEach of notifyStateChange / emitConnectionEvent, so a setState made by
\* the first listener runs to its end, notifications included, before the
\* forEach of the outer call reaches the second listener.
setStateObserved(s, newState, reaction) ==
  LET r == setState(s, newState)
      reacts == r.notified /\ reaction # NoReaction /\ reaction.on = newState
      n == IF reacts THEN setState(r.sm, reaction.call)
           ELSE [ sm |-> r.sm, ok |-> TRUE, notified |-> FALSE,
                  stateCalls |-> << >>, eventCalls |-> << >> ]
  IN  IF reacts /\ reaction.kind = "state"
        THEN [ sm |-> n.sm, ok |-> r.ok,
               stateFirst  |-> r.stateCalls \o n.stateCalls,
               stateSecond |-> n.stateCalls \o r.stateCalls,
               eventFirst  |-> n.eventCalls \o r.eventCalls,
               eventSecond |-> n.eventCalls \o r.eventCalls ]
        ELSE [ sm |-> n.sm, ok |-> r.ok,
               stateFirst  |-> r.stateCalls \o n.stateCalls,
               stateSecond |-> r.stateCalls \o n.stateCalls,
               eventFirst  |-> r.eventCalls \o n.eventCalls,
               eventSecond |-> n.eventCalls \o r.eventCalls ]

SM_SetStateObserved(T, reaction) ==
  /\ calls < MaxSmCalls
  /\ LET r == setStateObserved(SM, T, reaction)
     IN  /\ SetSM(r.sm)
         /\ lastCall' = [ op |-> "setStateObserved", from |-> currentState, to |-> T,
                          result |-> r.ok,
                          stateFirst |-> r.stateFirst, stateSecond |-> r.stateSecond,
                          eventFirst |-> r.eventFirst, eventSecond |-> r.eventSecond ]
  /\ calls' = calls + 1
  /\ UNCHANGED notSM

NextSMObserved ==
  \/ \E T \in WhatsAppStatus, reaction \in Reactions : SM_SetStateObserved(T, reaction)
  \/ SM_Reset

SpecSMObserved == InitSM /\ [][NextSMObserved]_vars

\* The new states of a sequence of state-change notifications, and the
\* states of a sequence of state_changed events.
notifiedStates(stateCalls) == [ k \in 1..Len(stateCalls) |-> stateCalls[k][1] ]

eventStates(eventCalls) == [ k \in 1..Len(eventCalls) |-> eventCalls[k].state ]

\* C21: every state-change observer and every event observer receives its
\* notifications in the order in which the transitions were applied (the
\* order of the records the call appended to the transition history), also
\* when an observer causes a further transition from within a notification.
C21_NotificationsInOrder ==
  [][ lastCall'.op = "setStateObserved"
      => LET applied == SubSeq(stateHistory', Len(stateHistory) + 1, Len(stateHistory'))
         IN  /\ notifiedStates(lastCall'.stateFirst)  = applied
             /\ notifiedStates(lastCall'.stateSecond) = applied
             /\ eventStates(lastCall'.eventFirst)     = applied
             /\ eventStates(lastCall'.eventSecond)    = applied ]_vars

\* ========================================================================
\* Specification SpecRM: the reconnection manager driven directly, with a
\* reconnect function that resolves or rejects as the environment decides
\* ========================================================================
RM_Start ==
  /\ LET r == startReconnection(RM, "connect")
     IN  /\ RMBounded(r)
         /\ SetRM(r)
  /\ lastCall' = [ op |-> "startReconnection", outcome |-> startOutcome(RM),
                   before |-> reconnectAttempts ]
  /\ UNCHANGED << notRM, conns, calls >>

RM_Stop ==
  /\ SetRM(stopReconnection(RM))
  /\ lastCall' = [ op |-> "stopReconnection" ]
  /\ UNCHANGED << notRM, conns, calls >>

RM_Reset ==
  /\ SetRM(rmReset(RM))
  /\ lastCall' = [ op |-> "reset" ]
  /\ UNCHANGED << notRM, conns, calls >>

\* A backoff timer fires and calls the caller's reconnect function, which
\* suspends.
RM_TimerFiresConnect(held) ==
  /\ canFire(RM, "connect", held)
  /\ connCount(conns) < MaxConns
  /\ SetRM(timerFired(RM, "connect", held))
  /\ conns' = addConn(conns, TimerInit)
  /\ lastCall' = [ op |-> "timer", fn |-> "connect" ]
  /\ UNCHANGED << notRM, calls >>

\* A backoff timer fires and calls the placeholder, which throws at once;
\* the callback awaits the rejected promise.
RM_TimerFiresDummy(held) ==
  /\ canFire(RM, "dummy", held)
  /\ connCount(conns) < MaxConns
  /\ SetRM(timerFired(RM, "dummy", held))
  /\ conns' = addConn(conns, settledKind(TRUE))
  /\ lastCall' = [ op |-> "timer", fn |-> "dummy" ]
  /\ UNCHANGED << notRM, calls >>

RM_RetryTimeout ==
  /\ retryTimers >= 1
  /\ LET r == retryTimeout([ RM EXCEPT !.retryTimers = @ - 1 ])
     IN  /\ RMBounded(r)
         /\ SetRM(r)
  /\ lastCall' = [ op |-> "retryTimeout", outcome |-> startOutcome(RM),
                   before |-> reconnectAttempts ]
  /\ UNCHANGED << notRM, conns, calls >>

\* The promise of the caller's reconnect function resolves or rejects.
RM_FnResolves ==
  /\ BagIn(TimerInit, conns)
  /\ conns' = addConn(dropConn(conns, TimerInit), settledKind(FALSE))
  /\ lastCall' = [ op |-> "fnResolved" ]
  /\ UNCHANGED << smVars, rmVars, mqVars, clVars, envVars, obsVars, calls >>

RM_FnRejects ==
  /\ BagIn(TimerInit, conns)
  /\ conns' = addConn(dropConn(conns, TimerInit), settledKind(TRUE))
  /\ lastCall' = [ op |-> "fnRejected" ]
  /\ UNCHANGED << smVars, rmVars, mqVars, clVars, envVars, obsVars, calls >>

\* The callback of a backoff timer resumes from its await of the reconnect
\* function, which returned or threw.
RM_CallbackResumes(threw) ==
  /\ BagIn(settledKind(threw), conns)
  /\ conns' = dropConn(conns, settledKind(threw))
  /\ LET r == timerCallbackResumes(RM, threw)
     IN  /\ RMBounded(r)
         /\ SetRM(r)
  /\ lastCall' = [ op |-> "timerCallback", threw |-> threw,
                   event |-> IF threw THEN onReconnectionFailureEvent(RM)
                             ELSE "reconnection_success" ]
  /\ UNCHANGED << notRM, calls >>

RM_UpdateConfig(config) ==
  /\ SetRM(updateConfig(RM, config))
  /\ lastCall' = [ op |-> "updateConfig" ]
  /\ UNCHANGED << notRM, conns, calls >>

\* The caller asks whether a state and an error warrant a reconnection.
RM_ShouldReconnect(state, error) ==
  /\ lastCall' = [ op |-> "shouldReconnect", state |-> state, err |-> error,
                   attempts |-> reconnectAttempts,
                   max |-> maxReconnectAttempts,
                   result |-> shouldReconnect(RM, state, error) ]
  /\ UNCHANGED << smVars, rmVars, mqVars, clVars, envVars, obsVars, conns, calls >>

InitRM == InitSM

\* The calls and callbacks that leave the configuration alone.
NextRMConfigured ==
  \/ RM_Start
  \/ RM_Stop
  \/ RM_Reset
  \/ \E held \in BOOLEAN : RM_TimerFiresConnect(held)
  \/ \E held \in BOOLEAN : RM_TimerFiresDummy(held)
  \/ RM_RetryTimeout
  \/ \E state \in WhatsAppStatus, error \in Errors \cup { NoErr } :
       RM_ShouldReconnect(state, error)
  \/ RM_FnResolves
  \/ RM_FnRejects
  \/ \E threw \in BOOLEAN : RM_CallbackResumes(threw)

NextRM ==
  \/ NextRMConfigured
  \/ \E n \in ConfigValues : RM_UpdateConfig([ maxReconnectAttempts |-> n ])
  \/ RM_UpdateConfig(IntervalOnly)

SpecRM == InitRM /\ [][NextRM]_vars

\* The manager under the calls claim C4 lists: startReconnection,
\* stopReconnection, reset, timer firings and the reconnect function's
\* successes and failures, with the configuration of the constructor.
SpecRMConfigured == InitRM /\ [][NextRMConfigured]_vars

\* C4: in every reachable state of the ReconnectionManager, under any
\* sequence of those calls, the attempt counter is at most
\* maxReconnectAttempts.
C4_AttemptsBounded == reconnectAttempts <= maxReconnectAttempts

\* startReconnection was called with the counter at the maximum and left
\* it there.
C4_Witness ==
  /\ lastCall.op = "startReconnection"
  /\ lastCall.outcome = "max_attempts_reached"
  /\ lastCall.before = maxReconnectAttempts
  /\ reconnectAttempts = maxReconnectAttempts

\* A retry cycle is in flight: a backoff timer is pending or the reconnect
\* function is executing.
cycleInFlight ==
  \/ timers["connect"] + timers["dummy"] >= 1
  \/ connCount(conns) >= 1

\* C15: startReconnection called while a retry cycle is in flight is a
\* no-op: the attempt counter is unchanged, no second timer is scheduled
\* and no event is emitted.
C15_StartWhileInFlight ==
  [][ ( lastCall'.op = "startReconnection" /\ cycleInFlight )
        => ( /\ UNCHANGED rmVars
             /\ lastCall'.outcome = "in_progress" ) ]_vars

\* ---- SpecRMAsked: the calls of the manager's user, shouldReconnect among
\* them, while no backoff delay elapses ----------------------------------------
NextRMAsked ==
  \/ RM_Start
  \/ RM_Stop
  \/ RM_Reset
  \/ \E n \in ConfigValues : RM_UpdateConfig([ maxReconnectAttempts |-> n ])
  \/ RM_UpdateConfig(IntervalOnly)
  \/ \E state \in WhatsAppStatus, error \in Errors \cup { NoErr } :
       RM_ShouldReconnect(state, error)

SpecRMAsked == InitRM /\ [][NextRMAsked]_vars

\* The errors of the model that the deny-list of the claim covers
\* (authentication failure, invalid session, banned, deprecated).
C16_DenyErrors == { errBanned, errInvalidSession, errDeprecated, errAuthFailure }

\* C16 as stated: shouldReconnect is false for every deny-listed error
\* whatever the state, and true for every allow-listed state without a
\* deny-listed error whatever the attempt counter.
C16_ShouldReconnect ==
  lastCall.op = "shouldReconnect"
    => /\ lastCall.err \in C16_DenyErrors => ~lastCall.result
       /\ ( /\ lastCall.state \in { "disconnected", "error", "timeout", "conflict", "proxyblock" }
            /\ lastCall.err \notin C16_DenyErrors )
          => lastCall.result

\* C16 as amended: shouldReconnect is false for every deny-listed error
\* whatever the state, false whenever the attempt counter has reached
\* maxReconnectAttempts, and true for every allow-listed state without a
\* deny-listed error while the counter is below maxReconnectAttempts.
C16_ShouldReconnectBelowMax ==
  lastCall.op = "shouldReconnect"
    => /\ lastCall.err \in C16_DenyErrors => ~lastCall.result
       /\ lastCall.attempts >= lastCall.max => ~lastCall.result
       /\ ( /\ lastCall.state \in { "disconnected", "error", "timeout", "conflict", "proxyblock" }
            /\ lastCall.err \notin C16_DenyErrors
            /\ lastCall.attempts < lastCall.max )
          => lastCall.result

\* shouldReconnect has refused an allow-listed state because of a
\* deny-listed error, with attempts left.
C16_Witness ==
  /\ lastCall.op = "shouldReconnect"
  /\ lastCall.state = "disconnected"
  /\ lastCall.err = errBanned
  /\ lastCall.attempts = 1
  /\ ~lastCall.result

\* ---- SpecRMFailing: a reconnect function that rejects on every attempt,
\* no call of stopReconnection or reset, and the configuration of the
\* constructor --------------------------------------------------------------
\* Without those calls isReconnecting stays set from the scheduling of a
\* backoff timer to the failure of its cycle, so at most one backoff timer
\* is pending and it is the one reconnectTimer holds.  The event loop runs
\* every timer that is due and the reconnect function settles: weak
\* fairness on those steps.
NextRMFailing ==
  \/ RM_Start
  \/ RM_TimerFiresConnect(TRUE)
  \/ RM_TimerFiresDummy(TRUE)
  \/ RM_RetryTimeout
  \/ RM_FnRejects
  \/ RM_CallbackResumes(TRUE)
  \/ \E state \in WhatsAppStatus, error \in Errors \cup { NoErr } :
       RM_ShouldReconnect(state, error)

SpecRMFailing ==
  /\ InitRM
  /\ [][NextRMFailing]_vars
  /\ WF_vars(RM_TimerFiresConnect(TRUE))
  /\ WF_vars(RM_TimerFiresDummy(TRUE))
  /\ WF_vars(RM_RetryTimeout)
  /\ WF_vars(RM_FnRejects)
  /\ WF_vars(RM_CallbackResumes(TRUE))

\* The retry process has ended with the attempts used up: no timer is
\* pending and no cycle is in flight.
Exhausted ==
  /\ reconnectAttempts = maxReconnectAttempts
  /\ ~isReconnecting
  /\ timers["connect"] + timers["dummy"] = 0
  /\ retryTimers = 0
  /\ connCount(conns) = 0

\* C33: if the reconnect function fails on every attempt and nobody calls
\* stopReconnection or reset, the retry process terminates: the failure of
\* the attempt that brings the counter to maxReconnectAttempts emits
\* max_attempts_reached, and from the first attempt on the manager
\* eventually stays at maxReconnectAttempts attempts with no timer pending
\* and no cycle in flight.
C33_RetryTerminates ==
  /\ ( reconnectAttempts >= 1 ) ~> []Exhausted
  /\ [][ ( /\ lastCall'.op = "timerCallback"
           /\ lastCall'.threw
           /\ ~isReconnecting'
           /\ reconnectAttempts' = maxReconnectAttempts )
         => lastCall'.event = "max_attempts_reached" ]_vars

\* The placeholder of the last cycle has thrown, max_attempts_reached was
\* emitted and nothing is left pending.
C33_Witness ==
  /\ lastCall.op = "timerCallback"
  /\ lastCall.threw
  /\ lastCall.event = "max_attempts_reached"
  /\ Exhausted

\* C31: after a reconnection attempt fails with attempts remaining, the next
\* cycle invokes the reconnect function that was passed to
\* startReconnection: no backoff timer ever holds another function.
C31_RetryReusesReconnectFn == timers["dummy"] = 0

\* C32: once stopReconnection has returned, no retry cycle is scheduled or
\* run unless a caller invokes startReconnection again: the step that
\* follows the return of stopReconnection is not the 1000 ms timeout
\* starting a cycle.
C32_StopIsFinal ==
  [][ lastCall.op = "stopReconnection"
        => ~( /\ lastCall'.op = "retryTimeout"
              /\ lastCall'.outcome = "reconnection_started" ) ]_vars

\* ========================================================================
\* Specification SpecMQ: the message manager driven directly, with a
\* sendFunction that resolves or rejects as the environment decides
\* ========================================================================
MQ_Enqueue(to, n) ==
  /\ nextId <= MaxMsgs
  /\ SetMQ(queueOutgoingMessage(MQ, to, n))
  /\ lastCall' = [ op |-> "enqueue", id |-> nextId ]
  /\ UNCHANGED << notMQ, calls >>

\* A call of sendQueuedMessage up to its await (or to its early return).
MQ_Dispatch(i) ==
  /\ LET r == sendQueuedMessageStart(MQ, i)
     IN  /\ r.accepted => calls < MaxDispatches
         /\ SetMQ(r.mq)
         /\ calls' = IF r.accepted THEN calls + 1 ELSE calls
         /\ lastCall' = [ op |-> "dispatch", id |-> i,
                          statusBefore |-> IF inQueue(MQ, i)
                                             THEN messageQueue[i].status
                                             ELSE "not_found",
                          invoked |-> r.accepted,
                          threw   |-> dispatchOutcome("refused").threw,
                          result  |-> dispatchOutcome("refused").result ]
  /\ UNCHANGED notMQ

MQ_SendResolves(i) ==
  /\ sends[i] >= 1
  /\ SetMQ(sendQueuedMessageResolved(MQ, i))
  /\ lastCall' = [ op |-> "dispatchReturned", id |-> i,
                   threw  |-> dispatchOutcome("resolved").threw,
                   result |-> dispatchOutcome("resolved").result,
                   event  |-> "message_sent" ]
  /\ UNCHANGED << notMQ, calls >>

MQ_SendRejects(i) ==
  /\ sends[i] >= 1
  /\ SetMQ(sendQueuedMessageRejected(MQ, i))
  /\ lastCall' = [ op |-> "dispatchReturned", id |-> i,
                   threw  |-> dispatchOutcome("rejected").threw,
                   result |-> dispatchOutcome("rejected").result,
                   event  |-> sendFailureEvent(MQ, i) ]
  /\ UNCHANGED << notMQ, calls >>

MQ_Cancel(i) ==
  /\ SetMQ(cancelMessage(MQ, i))
  /\ lastCall' = [ op |-> "cancel", id |-> i, result |-> cancelResult(MQ, i) ]
  /\ UNCHANGED << notMQ, calls >>

MQ_EvictTimeout(i) ==
  /\ evictions[i] >= 1
  /\ SetMQ(evictTimeout(MQ, i))
  /\ lastCall' = [ op |-> "evictTimeout", id |-> i ]
  /\ UNCHANGED << notMQ, calls >>

MQ_ClearHistory(chatId) ==
  /\ SetMQ(clearHistory(MQ, chatId))
  /\ lastCall' = [ op |-> "clearHistory", chat |-> chatId ]
  /\ UNCHANGED << notMQ, calls >>

InitMQ == InitSM

NextMQ ==
  \/ \E to \in Chats, n \in MaxRetriesOptions : MQ_Enqueue(to, n)
  \/ \E i \in MsgIds : MQ_Dispatch(i)
  \/ \E i \in MsgIds : MQ_SendResolves(i)
  \/ \E i \in MsgIds : MQ_SendRejects(i)
  \/ \E i \in MsgIds : MQ_Cancel(i)
  \/ \E i \in MsgIds : MQ_EvictTimeout(i)
  \/ \E chatId \in Chats : MQ_ClearHistory(chatId)

SpecMQ == InitMQ /\ [][NextMQ]_vars

\* C3: a sendQueuedMessage call made while the id has status 'sending'
\* returns false, does not invoke sendFn and changes nothing, so at most one
\* send of a given message is in flight at any time.
C3_NoDuplicateInFlight ==
  /\ [](\A i \in MsgIds : sends[i] <= 1)
  /\ [][ \A i \in MsgIds :
           ( /\ lastCall'.op = "dispatch"
             /\ lastCall'.id = i
             /\ inQueue(MQ, i)
             /\ messageQueue[i].status = "sending" )
           => ( /\ ~lastCall'.invoked
                /\ UNCHANGED mqVars ) ]_vars

\* A dispatch of an id whose send is in flight has been rejected.
C3_Witness ==
  /\ lastCall.op = "dispatch"
  /\ lastCall.statusBefore = "sending"
  /\ ~lastCall.invoked
  /\ sends[lastCall.id] = 1
  /\ inQueue(MQ, lastCall.id)
  /\ messageQueue[lastCall.id].status = "sending"

\* C35: dispatch starts only from 'queued': sendQueuedMessage on a message
\* whose status is 'sent' (before its eviction) or 'failed' returns false
\* without invoking sendFn and leaves the message manager unchanged.
C35_DispatchOnlyFromQueued ==
  [][ ( /\ lastCall'.op = "dispatch"
        /\ lastCall'.statusBefore \in { "sent", "failed" } )
        => ( /\ ~lastCall'.invoked
             /\ UNCHANGED mqVars ) ]_vars

\* C10: for every message in the outgoing queue, retryCount is at most the
\* message's maxRetries.
C10_RetryCountBounded ==
  \A i \in MsgIds :
    inQueue(MQ, i) => messageQueue[i].retryCount <= messageQueue[i].maxRetries

\* No send of message i, which is in the queue, has succeeded so far: every
\* successful send sets a removal timer, and the first of them to fire
\* removes the message (the history does not tell, clearHistory empties it).
neverSent(i) == evictions[i] = 0

\* C11: a message enqueued with options.maxRetries = N whose sends all
\* fail and which is dispatched again only while it is queued has
\* retryCount = N when it becomes failed.
C11_FailedAtN ==
  [][ \A i \in MsgIds :
        ( /\ inQueue(MQ, i)
          /\ neverSent(i)
          /\ messageQueue[i].status = "sending"
          /\ messageQueue[i].retryCount < messageQueue[i].maxRetries
          /\ messageQueue'[i] # Absent
          /\ messageQueue'[i].status = "failed" )
        => messageQueue'[i].retryCount = messageQueue[i].options.maxRetries ]_vars

\* C12: scenario B (one message enqueued with maxRetries = 2, every send
\* fails, dispatched again only while queued): when the message is failed
\* sendFunction has been invoked three times and retryCount is 2.
C12_ScenarioB ==
  ( /\ nextId = 2
    /\ inQueue(MQ, 1)
    /\ neverSent(1)
    /\ messageQueue[1].options.maxRetries = 2
    /\ messageQueue[1].status = "failed"
    /\ messageQueue[1].retryCount <= messageQueue[1].maxRetries )
  => ( calls = 3 /\ messageQueue[1].retryCount = 2 )

\* C13: when the sendFunction of a dispatched message resolves, the message
\* has status sent and the history of its destination gains exactly one
\* entry, the message itself; no other chat's history changes.
C13_SentAndOneEntry ==
  [][ \A i \in MsgIds :
        ( /\ lastCall'.op = "dispatchReturned"
          /\ lastCall'.id = i
          /\ lastCall'.result )
        => LET to == messageQueue[i].to
           IN  /\ inQueue(MQ, i) => ( messageQueue'[i] # Absent
                                       /\ messageQueue'[i].status = "sent" )
               /\ Len(messageHistory'[to]) >= 1
               /\ messageHistory'[to][Len(messageHistory'[to])].id = i
               /\ Len(messageHistory[to]) < maxHistoryPerChat
                    => messageHistory'[to] =
                         Append(messageHistory[to], [ id |-> i, fromMe |-> TRUE ])
               /\ \A c \in Chats \ { to } : messageHistory'[c] = messageHistory[c] ]_vars

\* A message was enqueued and dispatched once, the send resolved: it is
\* sent and its chat's history holds the one entry.
C13_Witness ==
  /\ lastCall.op = "dispatchReturned"
  /\ lastCall.result
  /\ calls = 1
  /\ inQueue(MQ, lastCall.id)
  /\ messageQueue[lastCall.id].status = "sent"
  /\ Len(messageHistory[messageQueue[lastCall.id].to]) = 1
  /\ messageHistory[messageQueue[lastCall.id].to][1].id = lastCall.id

\* C14: cancelMessage on a sending message returns false and changes
\* nothing, and the send in flight still ends in sent when it resolves;
\* cancelMessage on a queued message returns true and the message is at
\* once absent from getQueuedMessages and getPendingMessages.
C14_Cancel ==
  [][ \A i \in MsgIds :
        ( /\ lastCall'.op = "cancel"
          /\ lastCall'.id = i
          /\ inQueue(MQ, i) )
        => /\ messageQueue[i].status = "sending"
             => ( /\ ~lastCall'.result
                  /\ UNCHANGED mqVars
                  /\ sends[i] = 1
                  /\ sendQueuedMessageResolved(MQ, i).messageQueue[i].status = "sent" )
           /\ messageQueue[i].status = "queued"
             => ( /\ lastCall'.result
                  /\ i \notin getQueuedMessages(MQ')
                  /\ \A c \in Chats : i \notin getPendingMessages(MQ', c) ) ]_vars

\* cancelMessage has just refused a message whose send is in flight.
C14_Witness ==
  /\ lastCall.op = "cancel"
  /\ ~lastCall.result
  /\ inQueue(MQ, lastCall.id)
  /\ messageQueue[lastCall.id].status = "sending"
  /\ sends[lastCall.id] = 1

\* message_sent was emitted for message i: the send that emits it sets
\* the timer that removes the message from the queue.
reportedSent(i) == evictions[i] >= 1

\* C39: no message is both reported sent and later reported cancelled:
\* once message_sent has been emitted for an id, cancelMessage on that id
\* returns false (and so emits no message_cancelled).
C39_SentNeverCancelled ==
  [][ \A i \in MsgIds :
        ( lastCall'.op = "cancel" /\ lastCall'.id = i /\ reportedSent(i) )
          => ( ~lastCall'.result /\ UNCHANGED mqVars ) ]_vars

\* ---- SpecMQLong: the same manager with incoming messages, started with
\* a long conversation history ---------------------------------------------
MQ_ProcessIncoming(raw) ==
  /\ calls < MaxDispatches
  /\ SetMQ(processIncomingMessage(MQ, raw))
  /\ calls' = calls + 1
  /\ lastCall' = [ op |-> "incoming", accepted |-> validateMessage(parseMessage(raw)),
                   chat |-> IF raw.fromMe THEN raw.to ELSE raw.from ]
  /\ UNCHANGED notMQ

\* The raw messages received in this specification: with an id, with or
\* without from and to, with a number or a string as timestamp.
ReceivedMessages ==
  { raw \in RawMessages : /\ raw.id = "wa1" /\ raw.author = "" /\ raw.chatId = ""
                          /\ raw.timestamp # "absent" }

\* The history of a chat that received n messages, the k-th with id -k.
receivedHistory(n) == [ k \in 1..n |-> [ id |-> 0 - k, fromMe |-> FALSE ] ]

InitMQLong ==
  /\ SMFresh
  /\ RMFresh
  /\ conns = NoConns
  /\ messageQueue = MQInit.messageQueue
  /\ \E n \in ChatHistoryStart..maxHistoryPerChat :
       messageHistory = [ c \in Chats |-> IF c = "chatA" THEN receivedHistory(n) ELSE << >> ]
  /\ sends = MQInit.sends
  /\ evictions = MQInit.evictions
  /\ nextId = MQInit.nextId
  /\ ClientFresh
  /\ EnvFresh
  /\ ObsFresh
  /\ observing = FALSE
  /\ lastCall = NoCall
  /\ calls = 0

\* The manager's calls, with messages enqueued under the default options.
NextMQLong ==
  \/ \E to \in Chats : MQ_Enqueue(to, 0)
  \/ \E i \in MsgIds : MQ_Dispatch(i)
  \/ \E i \in MsgIds : MQ_SendResolves(i)
  \/ \E i \in MsgIds : MQ_SendRejects(i)
  \/ \E i \in MsgIds : MQ_Cancel(i)
  \/ \E i \in MsgIds : MQ_EvictTimeout(i)
  \/ \E chatId \in Chats : MQ_ClearHistory(chatId)
  \/ \E raw \in ReceivedMessages : MQ_ProcessIncoming(raw)

SpecMQLong == InitMQLong /\ [][NextMQLong]_vars

\* C30: after any sequence of successful dispatches and
\* processIncomingMessage calls (and of the manager's other calls) every
\* conversation history holds at most 100 messages; an append to a full
\* history evicts the oldest entry and keeps the order of the others: a
\* step of a dispatch or of processIncomingMessage that changes a history
\* appends one entry to it, dropping the oldest when there were 100.
C30_ChatHistoryCapped ==
  /\ [](\A c \in Chats : Len(messageHistory[c]) <= 100)
  /\ [][ \A c \in Chats :
           ( messageHistory'[c] # messageHistory[c] /\ lastCall'.op # "clearHistory" )
           => ( /\ Len(messageHistory'[c]) >= 1
                /\ messageHistory'[c] =
                     ( IF Len(messageHistory[c]) = 100
                         THEN Append(Tail(messageHistory[c]),
                                     messageHistory'[c][Len(messageHistory'[c])])
                         ELSE Append(messageHistory[c],
                                     messageHistory'[c][Len(messageHistory'[c])]) ) ) ]_vars

\* A chat that had received 100 messages got one more by a successful
\* dispatch: it holds 100 entries, the oldest is gone, the newest is last.
C30_Witness ==
  /\ lastCall.op = "dispatchReturned"
  /\ lastCall.result
  /\ calls = 1
  /\ Len(messageHistory["chatA"]) = 100
  /\ messageHistory["chatA"][1].id = 0 - 2
  /\ messageHistory["chatA"][100] = [ id |-> lastCall.id, fromMe |-> TRUE ]

\* ---- SpecIncoming: the message manager receiving raw messages of the
\* driver ------------------------------------------------------------------
MQ_ProcessIncomingRaw(raw) ==
  /\ calls < MaxDispatches
  /\ SetMQ(processIncomingMessage(MQ, raw))
  /\ calls' = calls + 1
  /\ lastCall' = [ op |-> "incomingRaw", raw |-> raw,
                   returned |-> processIncomingResult(raw) ]
  /\ UNCHANGED notMQ

NextIncoming ==
  \/ \E raw \in RawMessages : MQ_ProcessIncomingRaw(raw)
  \/ \E chatId \in Chats : MQ_ClearHistory(chatId)

SpecIncoming == InitMQ /\ [][NextIncoming]_vars

\* The step appended exactly one record to the history of chatId and left
\* the other histories alone.
appendedOneUnder(chatId) ==
  /\ Len(messageHistory'[chatId]) = Len(messageHistory[chatId]) + 1
  /\ SubSeq(messageHistory'[chatId], 1, Len(messageHistory[chatId])) = messageHistory[chatId]
  /\ \A c \in Chats \ { chatId } : messageHistory'[c] = messageHistory[c]

\* C36 as stated: processIncomingMessage returns null and leaves every
\* history unchanged for a raw payload lacking an id, a sender or a
\* recipient; for an accepted payload it appends exactly one record under
\* the counterparty's key (the recipient when fromMe, the sender otherwise).
C36_IncomingValidated ==
  [][ lastCall'.op = "incomingRaw"
        => LET raw == lastCall'.raw
               sender == orElse(raw.from, raw.author)
               recipient == orElse(raw.to, raw.chatId)
           IN  IF raw.id = "" \/ sender = "" \/ recipient = ""
                 THEN lastCall'.returned = Null /\ UNCHANGED messageHistory
                 ELSE /\ lastCall'.returned # Null
                      /\ appendedOneUnder(IF raw.fromMe THEN recipient ELSE sender) ]_vars

\* C36 as amended: processIncomingMessage returns null and leaves every
\* history unchanged for a raw payload lacking a sender (from and author)
\* or a recipient (to and chatId), or carrying a timestamp that is not a
\* number; every other payload is accepted, under a generated id when it
\* lacks one, and appends exactly one record under the counterparty's key
\* (the recipient when fromMe, the sender otherwise).
C36_IncomingValidatedIdGenerated ==
  [][ lastCall'.op = "incomingRaw"
        => LET raw == lastCall'.raw
               sender == orElse(raw.from, raw.author)
               recipient == orElse(raw.to, raw.chatId)
           IN  IF sender = "" \/ recipient = "" \/ raw.timestamp = "string"
                 THEN lastCall'.returned = Null /\ UNCHANGED messageHistory
                 ELSE /\ lastCall'.returned = orElse(raw.id, generatedMessageId)
                      /\ appendedOneUnder(IF raw.fromMe THEN recipient ELSE sender) ]_vars

\* A payload without id, sent by the user to chatB, was accepted under a
\* generated id and filed under chatB; the other call of the run was
\* refused.
C36_Witness ==
  /\ lastCall.op = "incomingRaw"
  /\ lastCall.raw.id = ""
  /\ lastCall.raw.fromMe
  /\ lastCall.raw.to = "chatB"
  /\ lastCall.returned = generatedMessageId
  /\ calls = 2
  /\ Len(messageHistory["chatB"]) = 1
  /\ messageHistory["chatA"] = << >>

\* C27: sendQueuedMessage never throws: for a known or an unknown id and for
\* either outcome of sendFunction it returns a boolean; a refused call
\* changes nothing, and a failed send shows in the message's status and
\* lastError and in the message_retry or message_failed event.
C27_DispatchNeverThrows ==
  [][ \A i \in MsgIds :
        ( /\ lastCall'.op \in { "dispatch", "dispatchReturned" }
          /\ lastCall'.id = i )
        => /\ ~lastCall'.threw
           /\ lastCall'.result \in BOOLEAN
           /\ ( lastCall'.op = "dispatch" /\ ~lastCall'.invoked )
                => ( ~lastCall'.result /\ UNCHANGED mqVars )
           /\ ( lastCall'.op = "dispatchReturned" /\ ~lastCall'.result )
                => ( /\ lastCall'.event \in { "message_retry", "message_failed" }
                     /\ messageQueue'[i] # Absent
                          => ( /\ messageQueue'[i].lastError # Null
                               /\ messageQueue'[i].retryCount = messageQueue[i].retryCount + 1
                               /\ messageQueue'[i].status =
                                    ( IF lastCall'.event = "message_failed"
                                        THEN "failed" ELSE "queued" ) ) ) ]_vars

\* The only send of a message enqueued with maxRetries 1 was rejected: the
\* call returned false and the message is failed with its error recorded.
C27_Witness ==
  /\ lastCall.op = "dispatchReturned"
  /\ ~lastCall.threw
  /\ ~lastCall.result
  /\ lastCall.event = "message_failed"
  /\ inQueue(MQ, lastCall.id)
  /\ messageQueue[lastCall.id].status = "failed"
  /\ messageQueue[lastCall.id].retryCount = 1
  /\ messageQueue[lastCall.id].lastError # Null

\* ========================================================================
\* Specification SpecRoute: the connect route (apps/web/app/api/whatsapp/
\* connect/route.ts) serving the requests of one user, with the maps of
\* clients.ts.  The client a request creates is the environment here: its
\* initialize(), connect() and cleanup() resolve or reject, and its QR
\* code arrives or not, as the environment decides.
\* ========================================================================
Requests == 1..MaxRequests

\* connectionLocks.get(userId) is undefined, false or true;
\* lastConnectionAttempt.get(userId) is undefined, less than
\* MIN_CONNECTION_INTERVAL ago ("recent") or older ("old"); sweeps is the
\* number of cleanupInactiveClients() calls suspended in client.cleanup().
RouteInit ==
  [ lock        |-> "undefined",
    lastAttempt |-> "undefined",
    hasClient   |-> FALSE,
    sweeps      |-> 0,
    pc          |-> [ r \in Requests |-> "new" ] ]

\* The places where POST is suspended after its lockConnection call.
Locked == { "cleanupOld", "initialize", "connect", "qr", "cleanupNew" }

isConnectionLocked(rt) == rt.lock = "true"

canAttemptConnection(rt) ==
  IF rt.lock = "true" THEN FALSE
  ELSE IF rt.lastAttempt = "recent" THEN FALSE
  ELSE TRUE

lockConnection(rt) == [ rt EXCEPT !.lock = "true" ]

unlockConnection(rt) == [ rt EXCEPT !.lock = "false" ]

setClient(rt) ==
  [ rt EXCEPT !.hasClient = TRUE, !.lock = "false", !.lastAttempt = "recent" ]

removeClient(rt) ==
  [ rt EXCEPT !.hasClient = FALSE, !.lock = "undefined", !.lastAttempt = "undefined" ]

respond(rt, r, response) == [ rt EXCEPT !.pc[r] = response ]

\* POST from createWhatsAppConfig to the await of client.initialize().
postCreate(rt, r) == [ setClient(rt) EXCEPT !.pc[r] = "initialize" ]

\* POST from the return of requireUser to its first await or response;
\* status is what getStatus() of the stored client answers.
postStart(rt, r, status) ==
  IF isConnectionLocked(rt) THEN respond(rt, r, "429 in progress")
  ELSE IF ~canAttemptConnection(rt) THEN respond(rt, r, "429 rate limited")
  ELSE LET l == lockConnection(rt)
       IN  IF ~l.hasClient THEN postCreate(l, r)
           ELSE IF status = "connected" THEN respond(unlockConnection(l), r, "200 connected")
           ELSE IF status = "waiting_qr" THEN respond(unlockConnection(l), r, "200 waiting_qr")
           ELSE IF status \in { "error", "disconnected" } THEN [ l EXCEPT !.pc[r] = "cleanupOld" ]
           ELSE postCreate(l, r)

\* After existingClient.cleanup() returned.
postCleanedOld(rt, r) == postCreate(removeClient(rt), r)

\* initialize() or connect() threw: the inner and the outer catch block.
postThrew(rt, r) == respond(unlockConnection(unlockConnection(rt)), r, "500")

postInitialized(rt, r, ok) ==
  IF ok THEN [ rt EXCEPT !.pc[r] = "connect" ] ELSE postThrew(rt, r)

postConnected(rt, r, ok) ==
  IF ok THEN [ rt EXCEPT !.pc[r] = "qr" ] ELSE postThrew(rt, r)

\* qrPromise resolved (ok) or rejected.
postQr(rt, r, ok) ==
  IF ok THEN respond(unlockConnection(rt), r, "200")
  ELSE [ rt EXCEPT !.pc[r] = "cleanupNew" ]

\* After client.cleanup() returned in the catch block of qrPromise, which
\* rejects with a plain Error only (its timeout or the error listener), so
\* neither instanceof branch is taken and the response is the 500 of
\* unknown_error.
postCleanedNew(rt, r) == respond(unlockConnection(removeClient(rt)), r, "500")

\* MIN_CONNECTION_INTERVAL passes.
intervalPassed(rt) ==
  [ rt EXCEPT !.lastAttempt = IF @ = "recent" THEN "old" ELSE @ ]

\* cleanupInactiveClients() up to its await of client.cleanup(), or to its
\* end: status and inactive are what getConnectionStats() of the stored
\* client answers (inactive: timeInCurrentState > INACTIVE_THRESHOLD).
sweepStart(rt, status, inactive) ==
  IF rt.hasClient /\ status \in { "error", "disconnected" } /\ inactive
    THEN [ rt EXCEPT !.sweeps = @ + 1 ]
    ELSE rt

\* After client.cleanup() returned.
sweepCleaned(rt) == [ removeClient(rt) EXCEPT !.sweeps = @ - 1 ]

notRoute == << smVars, rmVars, conns, mqVars, clVars, boot, teardown, handoffs, obsVars,
              lastCall, calls >>

Route_Post(r, status) ==
  /\ route.pc[r] = "new"
  /\ route' = postStart(route, r, status)
  /\ UNCHANGED notRoute

Route_CleanedOld(r) ==
  /\ route.pc[r] = "cleanupOld"
  /\ route' = postCleanedOld(route, r)
  /\ UNCHANGED notRoute

Route_Initialized(r, ok) ==
  /\ route.pc[r] = "initialize"
  /\ route' = postInitialized(route, r, ok)
  /\ UNCHANGED notRoute

Route_Connected(r, ok) ==
  /\ route.pc[r] = "connect"
  /\ route' = postConnected(route, r, ok)
  /\ UNCHANGED notRoute

Route_Qr(r, ok) ==
  /\ route.pc[r] = "qr"
  /\ route' = postQr(route, r, ok)
  /\ UNCHANGED notRoute

Route_CleanedNew(r) ==
  /\ route.pc[r] = "cleanupNew"
  /\ route' = postCleanedNew(route, r)
  /\ UNCHANGED notRoute

Route_IntervalPasses ==
  /\ route.lastAttempt = "recent"
  /\ route' = intervalPassed(route)
  /\ UNCHANGED notRoute

\* The interval timer of clients.ts calls cleanupInactiveClients().  A
\* client stored less than MIN_CONNECTION_INTERVAL ago has not been in
\* its state for INACTIVE_THRESHOLD.
Route_Sweep(status, inactive) ==
  /\ inactive => route.lastAttempt # "recent"
  /\ sweepStart(route, status, inactive).sweeps <= MaxSweeps
  /\ route' = sweepStart(route, status, inactive)
  /\ UNCHANGED notRoute

Route_SweepCleaned ==
  /\ route.sweeps >= 1
  /\ route' = sweepCleaned(route)
  /\ UNCHANGED notRoute

InitRoute ==
  /\ SMFresh
  /\ RMFresh
  /\ conns = NoConns
  /\ MQFresh
  /\ ClientFresh
  /\ boot = BootInit
  /\ teardown = TeardownInit
  /\ handoffs = { }
  /\ route = RouteInit
  /\ ObsFresh
  /\ observing = FALSE
  /\ lastCall = NoCall
  /\ calls = 0

NextRoute ==
  \/ \E r \in Requests, status \in WhatsAppStatus : Route_Post(r, status)
  \/ \E r \in Requests : Route_CleanedOld(r)
  \/ \E r \in Requests, ok \in BOOLEAN : Route_Initialized(r, ok)
  \/ \E r \in Requests, ok \in BOOLEAN : Route_Connected(r, ok)
  \/ \E r \in Requests, ok \in BOOLEAN : Route_Qr(r, ok)
  \/ \E r \in Requests : Route_CleanedNew(r)
  \/ Route_IntervalPasses
  \/ \E status \in WhatsAppStatus, inactive \in BOOLEAN : Route_Sweep(status, inactive)
  \/ Route_SweepCleaned

SpecRoute == InitRoute /\ [][NextRoute]_vars

\* C24: at no time are two connect requests of the same user both between
\* their lockConnection call and their response.
C24_OneRequestLocked ==
  Cardinality({ r \in Requests : route.pc[r] \in Locked }) <= 1


\* ========================================================================
\* Specification SpecClient: the client with its managers, the driver,
\* the credential strategy and the timers
\* ========================================================================
DriverIds == 1..MaxInits

\* initialize() is called; a call that finds isInitialized set returns.
Cl_InitializeStart ==
  /\ boot.auth + boot.import + boot.drivers < MaxInits
  /\ boot' = initializeStart(W, boot)
  /\ scenario' = Observe(scenario, scenarioNext(scenario, "initialize"))
  /\ lastCall' = OtherCall
  /\ UNCHANGED << smVars, rmVars, conns, mqVars, clVars, teardown, handoffs, route,
                  afterDisconnect, rmConnects, observing, calls >>

\* authStrategy.initialize() returns or throws.
Cl_InitializeAuthDone(ok) ==
  /\ boot.auth >= 1
  /\ boot' = initializeAuthDone(boot, ok)
  /\ scenario' = Observe(scenario, IF ok THEN scenario ELSE "off")
  /\ lastCall' = OtherCall
  /\ UNCHANGED << smVars, rmVars, conns, mqVars, clVars, teardown, handoffs, route,
                  afterDisconnect, rmConnects, observing, calls >>

\* The import of the driver's module resolves or rejects.
Cl_InitializeImported(ok) ==
  /\ boot.import >= 1
  /\ LET r == initializeImported(W, boot, ok)
     IN  /\ SetW(r.w)
         /\ boot' = r.b
  /\ scenario' = Observe(scenario, IF ok THEN scenario ELSE "off")
  /\ lastCall' = OtherCall
  /\ UNCHANGED << mqVars, teardown, handoffs, route, afterDisconnect, rmConnects, observing, calls >>

\* The user calls connect().
Cl_Connect ==
  /\ LET r == connectStart(W, "user")
     IN  /\ WBounded(r.w)
         /\ SetW(r.w)
         /\ scenario' = Observe(scenario, scenarioNext(scenario,
                          IF r.outcome = "suspended" THEN "userConnect" ELSE "other"))
         /\ lastCall' = Observe(OtherCall,
                          [ op |-> "connect", outcome |-> r.outcome,
                            driverInitialized |-> connCount(r.w.conns) > connCount(conns) ])
  /\ afterDisconnect' = Observe(afterDisconnect, FALSE)
  /\ UNCHANGED << mqVars, envVars, observing, rmConnects, calls >>

\* A backoff timer fires and its callback calls connect(), which is
\* suspended in the driver or has returned or thrown already.
Cl_TimerFiresConnect(held) ==
  /\ canFire(RM, "connect", held)
  /\ LET r  == connectStart([ W EXCEPT !.rm = timerFired(RM, "connect", held) ], "timer")
         w1 == IF r.outcome = "suspended" THEN r.w
               ELSE connectEnded(r.w, "timer", r.outcome = "threw")
     IN  /\ WBounded(w1)
         /\ SetW(w1)
         /\ lastCall' = OtherCall
  /\ rmConnects' = Observe(rmConnects, countedConnect(rmConnects))
  /\ UNCHANGED << mqVars, envVars, observing, scenario, afterDisconnect, calls >>

\* The driver's initialize resolves for a suspended connect().
Cl_InitResolves(origin) ==
  /\ BagIn(connKind(origin, "init", NoErr), conns)
  /\ LET w1 == connectResolved(W, origin)
     IN  /\ WBounded(w1)
         /\ SetW(w1)
  /\ scenario' = Observe(scenario, scenarioNext(scenario, "initOk"))
  /\ lastCall' = OtherCall
  /\ UNCHANGED << mqVars, envVars, observing, afterDisconnect, rmConnects, calls >>

\* The driver's initialize rejects for a suspended connect().
Cl_InitRejects(origin, error) ==
  /\ BagIn(connKind(origin, "init", NoErr), conns)
  /\ LET w1 == connectRejected(W, origin, error)
     IN  /\ WBounded(w1)
         /\ SetW(w1)
         /\ lastCall' = Observe(OtherCall,
                          [ op |-> "connectFailed", origin |-> origin, err |-> error,
                            should |-> shouldReconnect(RM, "error", error),
                            cycleStarted |-> ~isReconnecting /\ w1.rm.isReconnecting ])
  /\ scenario' = Observe(scenario, scenarioNext(scenario,
                   IF error \in DenyListed THEN "initFailedForGood" ELSE "initFailed"))
  /\ UNCHANGED << mqVars, envVars, observing, afterDisconnect, rmConnects, calls >>

\* What a step of the catch block of connect() reports: the end of the
\* call when it ended, the retry decision otherwise.
catchCall(r, origin, error) ==
  IF r.ended
    THEN [ op |-> "connectEnded", origin |-> origin, threw |-> r.threw,
           scheduled |-> r.w.rm.isReconnecting ]
    ELSE Observe(OtherCall,
           [ op |-> "connectCatch", origin |-> origin, err |-> error,
             should |-> shouldReconnect(RM, "error", error),
             cycleStarted |-> ~isReconnecting /\ r.w.rm.isReconnecting ])

\* authStrategy.onAuthFailure returns its answer or throws.
Cl_AuthAnswered(origin, error, authResult, authThrew) ==
  /\ BagIn(connKind(origin, "auth", error), conns)
  /\ LET r == connectAuthAnswered(W, origin, error, authResult, authThrew)
     IN  /\ WBounded(r.w)
         /\ SetW(r.w)
         /\ lastCall' = catchCall(r, origin, error)
  /\ scenario' = Observe(scenario, IF authThrew THEN "off" ELSE scenario)
  /\ UNCHANGED << mqVars, envVars, observing, afterDisconnect, rmConnects, calls >>

\* authStrategy.clearSession returns or throws.
Cl_SessionCleared(origin, error, shouldRestart, clearThrew) ==
  /\ BagIn(clearKind(origin, error, shouldRestart), conns)
  /\ LET r == connectSessionCleared(W, origin, error, shouldRestart, clearThrew)
     IN  /\ WBounded(r.w)
         /\ SetW(r.w)
         /\ lastCall' = catchCall(r, origin, error)
  /\ scenario' = Observe(scenario, IF clearThrew THEN "off" ELSE scenario)
  /\ UNCHANGED << mqVars, envVars, observing, afterDisconnect, rmConnects, calls >>

\* connect() resumes from its await of startReconnection and throws.
Cl_ConnectThrows(origin) ==
  /\ BagIn(connKind(origin, "start", NoErr), conns)
  /\ LET r == connectCatchThrow(W, origin)
     IN  /\ WBounded(r.w)
         /\ SetW(r.w)
         /\ lastCall' = [ op |-> "connectEnded", origin |-> origin, threw |-> r.threw,
                          scheduled |-> isReconnecting ]
  /\ UNCHANGED << mqVars, envVars, obsVars, calls >>

\* The user calls disconnect(); without a client there is no await.
Cl_Disconnect ==
  /\ LET w1 == disconnectStart(W)
         w2 == IF client THEN w1 ELSE disconnectDone(w1, 0)
     IN  /\ WBounded(w2)
         /\ SetW(w2)
         /\ afterDisconnect' = Observe(afterDisconnect, IF client THEN afterDisconnect ELSE TRUE)
         /\ rmConnects' = Observe(rmConnects, countConnects(w2, rmConnects))
  /\ scenario' = Observe(scenario, "off")
  /\ lastCall' = IF client THEN OtherCall
                 ELSE [ op |-> "disconnectEnded", destroyThrew |-> FALSE,
                        outcome |-> disconnectOutcome(FALSE) ]
  /\ UNCHANGED << mqVars, envVars, observing, calls >>

\* The destroy of driver d returns to a disconnect() of the user.
Cl_DestroyReturns(d) ==
  /\ d \in DOMAIN disconnects
  /\ disconnects[d] > CopiesIn(cleanupAt("disconnect", d), teardown)
  /\ LET w1 == disconnectDone(W, d)
     IN  /\ WBounded(w1)
         /\ SetW(w1)
  /\ afterDisconnect' = Observe(afterDisconnect, TRUE)
  /\ lastCall' = [ op |-> "disconnectEnded", destroyThrew |-> FALSE,
                   outcome |-> disconnectOutcome(FALSE) ]
  /\ UNCHANGED << mqVars, envVars, observing, scenario, rmConnects, calls >>

Cl_DestroyThrows(d) ==
  /\ d \in DOMAIN disconnects
  /\ disconnects[d] > CopiesIn(cleanupAt("disconnect", d), teardown)
  /\ LET w1 == disconnectFailed(W, d)
     IN  /\ WBounded(w1)
         /\ SetW(w1)
  /\ afterDisconnect' = Observe(afterDisconnect, TRUE)
  /\ lastCall' = [ op |-> "disconnectEnded", destroyThrew |-> TRUE,
                   outcome |-> disconnectOutcome(TRUE) ]
  /\ UNCHANGED << mqVars, envVars, observing, scenario, rmConnects, calls >>

\* A callback of a running driver.
Cl_Driver(ev, w1) ==
  /\ anyDriverLive(W)
  /\ WBounded(w1)
  /\ SetW(w1)
  /\ rmConnects' = Observe(rmConnects, countConnects(w1, rmConnects))
  /\ scenario' = Observe(scenario, scenarioNext(scenario, ev))
  /\ lastCall' = OtherCall
  /\ UNCHANGED << mqVars, envVars, observing, afterDisconnect, calls >>

Cl_Qr(qr)          == Cl_Driver("qr", onQr(W, qr))
Cl_Ready           == Cl_Driver("ready", onReady(W))
Cl_Authenticated   == Cl_Driver("authenticated", onAuthenticated(W))
Cl_AuthFailure     == Cl_Driver("auth_failure", onAuthFailureEvent(W))
Cl_Disconnected    == Cl_Driver("disconnected", onDisconnected(W))

InitClient ==
  /\ SMFresh
  /\ RMFresh
  /\ conns = NoConns
  /\ MQFresh
  /\ ClientFresh
  /\ EnvFresh
  /\ ObsFresh
  /\ observing = FALSE
  /\ lastCall = NoCall
  /\ calls = 0

\* The same client, with the observations of the run switched on.
InitClientObs ==
  /\ SMFresh
  /\ RMFresh
  /\ conns = NoConns
  /\ MQFresh
  /\ ClientFresh
  /\ EnvFresh
  /\ ObsFresh
  /\ observing = TRUE
  /\ lastCall = NoCall
  /\ calls = 0

\* The steps of initialize().
InitializeSteps ==
  \/ Cl_InitializeStart
  \/ \E ok \in BOOLEAN : Cl_InitializeAuthDone(ok)
  \/ \E ok \in BOOLEAN : Cl_InitializeImported(ok)

\* The same steps for a caller that does not call initialize() again
\* before its previous call has ended.
InitializeInTurn ==
  \/ ( boot.auth + boot.import = 0 /\ Cl_InitializeStart )
  \/ \E ok \in BOOLEAN : Cl_InitializeAuthDone(ok)
  \/ \E ok \in BOOLEAN : Cl_InitializeImported(ok)

\* Every other step of the client.
ClientSteps ==
  \/ Cl_Connect
  \/ \E held \in BOOLEAN : Cl_TimerFiresConnect(held)
  \/ \E held \in BOOLEAN : RM_TimerFiresDummy(held)
  \/ RM_RetryTimeout
  \/ \E threw \in BOOLEAN : RM_CallbackResumes(threw)
  \/ \E origin \in { "user", "timer" } : Cl_InitResolves(origin)
  \/ \E origin \in { "user", "timer" }, error \in DriverErrors : Cl_InitRejects(origin, error)
  \/ \E origin \in { "user", "timer" }, error \in DriverErrors,
        authResult \in AuthResults, authThrew \in BOOLEAN :
       Cl_AuthAnswered(origin, error, authResult, authThrew)
  \/ \E origin \in { "user", "timer" }, error \in DriverErrors,
        shouldRestart \in BOOLEAN, clearThrew \in BOOLEAN :
       Cl_SessionCleared(origin, error, shouldRestart, clearThrew)
  \/ \E origin \in { "user", "timer" } : Cl_ConnectThrows(origin)
  \/ Cl_Disconnect
  \/ \E d \in DriverIds : Cl_DestroyReturns(d)
  \/ \E d \in DriverIds : Cl_DestroyThrows(d)
  \/ \E qr \in QrCodes : Cl_Qr(qr)
  \/ Cl_Ready
  \/ Cl_Authenticated
  \/ Cl_AuthFailure
  \/ Cl_Disconnected

NextClient ==
  \/ InitializeInTurn
  \/ ClientSteps

SpecClient == InitClient /\ [][NextClient]_vars

SpecClientObs == InitClientObs /\ [][NextClient]_vars

\* ---- SpecInit: the same client, where initialize() may be called again
\* during the awaits of an earlier call ---------------------------------------
NextInit ==
  \/ InitializeSteps
  \/ ClientSteps

SpecInit == InitClient /\ [][NextInit]_vars

\* C22: whatever the interleaving of overlapping initialize() calls, the
\* protocol driver is created and the driver callbacks are registered at
\* most once.
C22_InitializeOnce == boot.drivers <= 1 /\ boot.registrations <= 1

\* ---- SpecTeardown: the same client, with cleanup() ------------------------
\* cleanup() is called; its disconnect() destroys the driver that is
\* this.client now.
Cl_Cleanup ==
  /\ BagCardinality(teardown) < MaxCleanups
  /\ LET r == cleanupStart(W)
     IN  /\ WBounded(r.w)
         /\ SetW(r.w)
         /\ teardown' = teardown (+) SetToBag({ cleanupAt(r.pc,
                            IF r.pc = "disconnect" THEN currentDriver(W) ELSE 0) })
  /\ lastCall' = OtherCall
  /\ UNCHANGED << mqVars, boot, handoffs, route, obsVars, calls >>

\* The destroy of cleanup()'s disconnect() returns or throws, and that
\* disconnect() ends.
Cl_CleanupDestroyed(d, destroyThrew) ==
  /\ BagIn(cleanupAt("disconnect", d), teardown)
  /\ LET w1 == cleanupDisconnected(W, d, destroyThrew)
     IN  /\ WBounded(w1)
         /\ SetW(w1)
  /\ teardown' = ( teardown (-) SetToBag({ cleanupAt("disconnect", d) }) )
                    (+) SetToBag({ cleanupAt("disconnected", 0) })
  /\ lastCall' = OtherCall
  /\ UNCHANGED << mqVars, boot, handoffs, route, obsVars, calls >>

\* cleanup() resumes from its await of disconnect().
Cl_CleanupResumes ==
  /\ BagIn(cleanupAt("disconnected", 0), teardown)
  /\ SetW(cleanupResumed(W))
  /\ teardown' = ( teardown (-) SetToBag({ cleanupAt("disconnected", 0) }) )
                    (+) SetToBag({ cleanupAt("auth", 0) })
  /\ lastCall' = OtherCall
  /\ UNCHANGED << mqVars, boot, handoffs, route, obsVars, calls >>

\* authStrategy.cleanup() returns or throws, and cleanup() ends.
Cl_CleanupAuthDone(authThrew) ==
  /\ BagIn(cleanupAt("auth", 0), teardown)
  /\ SetW(cleanupAuthDone(W, authThrew))
  /\ teardown' = teardown (-) SetToBag({ cleanupAt("auth", 0) })
  /\ lastCall' = [ op |-> "cleanupEnded", authThrew |-> authThrew,
                   outcome |-> cleanupOutcome(authThrew) ]
  /\ UNCHANGED << mqVars, boot, handoffs, route, obsVars, calls >>

CleanupSteps ==
  \/ Cl_Cleanup
  \/ \E d \in DriverIds, destroyThrew \in BOOLEAN : Cl_CleanupDestroyed(d, destroyThrew)
  \/ Cl_CleanupResumes
  \/ \E authThrew \in BOOLEAN : Cl_CleanupAuthDone(authThrew)

NextTeardown ==
  \/ InitializeInTurn
  \/ ClientSteps
  \/ CleanupSteps

SpecTeardown == InitClient /\ [][NextTeardown]_vars

\* C25: when cleanup() has completed, no timer scheduled by the
\* ReconnectionManager is still pending, whatever state the session was in
\* when cleanup() was called.
C25_CleanupCancelsTimers ==
  lastCall.op = "cleanupEnded"
    => ( timers["connect"] = 0 /\ timers["dummy"] = 0 /\ retryTimers = 0 )

\* C26: whichever teardown step fails, cleanup() does not throw, the
\* listeners are released and the client ends uninitialized.
C26_CleanupCompletes ==
  lastCall.op = "cleanupEnded"
    => ( /\ lastCall.outcome = "resolved"
         /\ ~listeners.stateListeners
         /\ ~isInitialized )

\* ---- SpecCallbacks: the client with callbacks of the user; the driver's
\* initialize resolves, the user leaves the disconnecting to cleanup() and
\* no backoff delay elapses ---------------------------------------------------
Cl_OnConnectionEvent(id) ==
  /\ SetW(onConnectionEvent(W, id))
  /\ lastCall' = OtherCall
  /\ UNCHANGED << mqVars, envVars, obsVars, calls >>

Cl_OffConnectionEvent(id) ==
  /\ SetW(offConnectionEvent(W, id))
  /\ lastCall' = OtherCall
  /\ UNCHANGED << mqVars, envVars, obsVars, calls >>

Cl_OnMessageEvent(id) ==
  /\ SetW(onMessageEvent(W, id))
  /\ lastCall' = OtherCall
  /\ UNCHANGED << mqVars, envVars, obsVars, calls >>

Cl_RemoveEventListener(id) ==
  /\ SetW(removeEventListener(W, id))
  /\ lastCall' = OtherCall
  /\ UNCHANGED << mqVars, envVars, obsVars, calls >>

\* A callback of the driver, with what it invoked.
Cl_DriverNotifies(ev, w1) ==
  /\ anyDriverLive(W)
  /\ WBounded(w1)
  /\ SetW(w1)
  /\ lastCall' = [ op |-> "driver", ev |-> ev,
                   invoked |-> connectionCallbackInvoked(W, ev) ]
  /\ UNCHANGED << mqVars, envVars, obsVars, calls >>

\* The driver's 'message' callback: processIncomingMessage notifies the
\* message listeners of an accepted message.
Cl_Message(raw) ==
  /\ anyDriverLive(W)
  /\ calls < MaxDeliveries
  /\ SetMQ(processIncomingMessage(MQ, raw))
  /\ calls' = calls + 1
  /\ lastCall' = [ op |-> "driver", ev |-> "message",
                   invoked |-> ( /\ listeners.messageListeners # { }
                                 /\ processIncomingResult(raw) # Null ) ]
  /\ UNCHANGED notMQ

\* The raw messages the driver delivers in this specification: messages
\* of chatA to the user, which processIncomingMessage accepts unless the
\* timestamp is a string.
DeliveredMessages ==
  { raw \in RawMessages : /\ raw.id = "wa1" /\ raw.from = "chatA" /\ raw.author = ""
                          /\ raw.to = "chatB" /\ raw.chatId = "" /\ ~raw.fromMe }

NextCallbacks ==
  \/ InitializeInTurn
  \/ Cl_Connect
  \/ \E origin \in { "user" } : Cl_InitResolves(origin)
  \/ \E qr \in QrCodes : Cl_DriverNotifies("qr", onQr(W, qr))
  \/ Cl_DriverNotifies("ready", onReady(W))
  \/ Cl_DriverNotifies("authenticated", onAuthenticated(W))
  \/ Cl_DriverNotifies("auth_failure", onAuthFailureEvent(W))
  \/ Cl_DriverNotifies("disconnected", onDisconnected(W))
  \/ \E raw \in DeliveredMessages : Cl_Message(raw)
  \/ \E id \in ListenerIds : Cl_OnConnectionEvent(id)
  \/ \E id \in ListenerIds : Cl_OffConnectionEvent(id)
  \/ \E id \in ListenerIds : Cl_OnMessageEvent(id)
  \/ \E id \in ListenerIds : Cl_RemoveEventListener(id)
  \/ CleanupSteps

SpecCallbacks == InitClient /\ [][NextCallbacks]_vars

\* C37: after cleanup() has completed, no callback registered through
\* onConnectionEvent or onMessageEvent is invoked again, whatever driver
\* callback arrives next.
C37_NoCallbackAfterCleanup ==
  [][ ( lastCall.op = "cleanupEnded" /\ lastCall'.op = "driver" )
        => ~lastCall'.invoked ]_vars

\* ---- SpecSend: the client and its message manager, while no backoff
\* delay elapses --------------------------------------------------------------
\* The user calls sendMessage(); a call that enqueues is suspended at its
\* await of queueOutgoingMessage.
Cl_SendMessage(to, maxRetriesOpt) ==
  /\ ( isConnected(SM) /\ client ) => nextId <= MaxMsgs
  /\ LET r == sendMessageStart(W, MQ, to, maxRetriesOpt)
     IN  /\ SetMQ(r.mq)
         /\ handoffs' = IF r.outcome = "suspended" THEN handoffs \cup { nextId }
                        ELSE handoffs
         /\ lastCall' = [ op |-> "sendMessage", outcome |-> r.outcome,
                          events |-> r.events ]
  /\ UNCHANGED << smVars, rmVars, conns, clVars, boot, teardown, route, obsVars, calls >>

\* That call resumes and dispatches message i; a call that dispatches is
\* suspended in the driver's send, which MQ_SendResolves and MQ_SendRejects
\* end.
Cl_SendDispatch(i) ==
  /\ i \in handoffs
  /\ handoffs' = handoffs \ { i }
  /\ LET r == sendMessageDispatch(MQ, i)
     IN  /\ SetMQ(r.mq)
         /\ lastCall' = [ op |-> "sendMessageResumed", outcome |-> r.outcome,
                          events |-> r.events ]
  /\ UNCHANGED << smVars, rmVars, conns, clVars, boot, teardown, route, obsVars, calls >>

\* The calls of this specification: one recipient, and options without
\* maxRetries (0 stands for the absent option, as in MaxRetriesOptions).
SendRecipients == { "chatA" }

SendOptions == { 0 }

\* The credential strategy of this specification answers a failure with
\* neither a restart nor a cleared session.
NoRecovery == [ shouldRestart |-> FALSE, shouldClearSession |-> FALSE ]

NextSend ==
  \/ InitializeInTurn
  \/ Cl_Connect
  \/ \E origin \in { "user" } : Cl_InitResolves(origin)
  \/ \E origin \in { "user" }, error \in DriverErrors : Cl_InitRejects(origin, error)
  \/ \E origin \in { "user" }, error \in DriverErrors, authThrew \in BOOLEAN :
       Cl_AuthAnswered(origin, error, NoRecovery, authThrew)
  \/ Cl_Disconnect
  \/ \E d \in DriverIds : Cl_DestroyReturns(d)
  \/ \E d \in DriverIds : Cl_DestroyThrows(d)
  \/ \E qr \in QrCodes : Cl_Qr(qr)
  \/ Cl_Ready
  \/ Cl_Authenticated
  \/ Cl_AuthFailure
  \/ Cl_Disconnected
  \/ \E to \in SendRecipients, n \in SendOptions : Cl_SendMessage(to, n)
  \/ \E i \in MsgIds : Cl_SendDispatch(i)
  \/ \E i \in MsgIds : MQ_SendResolves(i)
  \/ \E i \in MsgIds : MQ_SendRejects(i)
  \/ \E i \in MsgIds : MQ_EvictTimeout(i)

SpecSend == InitClient /\ [][NextSend]_vars

\* C28: sendMessage called while the lifecycle state is not connected
\* throws NOT_CONNECTED without enqueueing a message, without invoking the
\* driver's send and without emitting a message event.
C28_SendRequiresConnected ==
  [][ ( lastCall'.op = "sendMessage" /\ currentState # "connected" )
      => ( /\ lastCall'.outcome = "NOT_CONNECTED"
           /\ lastCall'.events = << >>
           /\ UNCHANGED mqVars ) ]_vars

\* sendMessage was refused in state error, reached from connected, where
\* an earlier message had been accepted.
C28_Witness ==
  /\ lastCall.op = "sendMessage"
  /\ lastCall.outcome = "NOT_CONNECTED"
  /\ currentState = "error"
  /\ previousState = "connected"
  /\ isInitialized
  /\ nextId = 2

\* ---- SpecDelivery: the same client and message manager, where the user
\* may also cancel a message ---------------------------------------------------
\* A sendMessage() call resumes from its await, the driver's send settles
\* and the event loop runs the eviction timer when it is due: weak fairness
\* on those steps.  Nothing obliges the user
\* to call anything.
NextDelivery ==
  \/ NextSend
  \/ \E i \in MsgIds : MQ_Cancel(i)

SpecDelivery ==
  /\ InitClient
  /\ [][NextDelivery]_vars
  /\ \A i \in MsgIds : /\ WF_vars(Cl_SendDispatch(i))
                       /\ WF_vars(MQ_SendResolves(i) \/ MQ_SendRejects(i))
                       /\ WF_vars(MQ_EvictTimeout(i))

\* C40: every message accepted by sendMessage eventually leaves the
\* outgoing queue or reaches a terminal status (sent, failed or
\* cancelled): no message stays 'queued' forever after its first send
\* fails.
C40_EveryMessageSettles ==
  \A i \in MsgIds :
    inQueue(MQ, i)
      ~> ( \/ ~inQueue(MQ, i)
           \/ messageQueue[i].status \in { "sent", "failed", "cancelled" } )

NoRetryPending ==
  /\ ~isReconnecting
  /\ timers["connect"] = 0 /\ timers["dummy"] = 0
  /\ retryTimers = 0
  /\ \A k \in ConnKinds : k.origin = "timer" => ~BagIn(k, conns)

\* C2: after disconnect() has completed and with no later connect() call
\* from the user, the lifecycle state stays disconnected and no retry cycle
\* is started or left pending.
C2_DisconnectIsFinal ==
  afterDisconnect => (currentState = "disconnected" /\ NoRetryPending)

\* C5: between two moments at which the lifecycle is connected (or since
\* session start) the ReconnectionManager invokes connect() at most
\* maxReconnectAttempts times.
C5_ReconnectsBounded == rmConnects <= maxReconnectAttempts

\* C6: the stored QR code is non-null only while the lifecycle state is
\* waiting_qr.
C6_QrOnlyWhileWaiting == currentQrCode # Null => currentState = "waiting_qr"

\* Nothing is left that would make the client act by itself.
Quiescent ==
  /\ NoRetryPending
  /\ connCount(conns) = 0
  /\ noDisconnects(W)
  /\ scenario # "ok3"

\* C7: scenario A (initialize fails twice with a transient error, then
\* succeeds): the retry machinery re-invokes connect() by itself until the
\* lifecycle is connected, after which the attempt counter is 0.
C7_ScenarioA ==
  (scenario \in { "f2", "ok3", "done" } /\ Quiescent)
    => (scenario = "done" /\ currentState = "connected" /\ reconnectAttempts = 0)

\* C8: a retry cycle is started after a connect() failure only if
\* shouldReconnect, evaluated with that failure's error, returned true.
C8_RetryOnlyIfShouldReconnect ==
  (lastCall.op \in { "connectFailed", "connectCatch" } /\ lastCall.cycleStarted)
    => lastCall.should

\* C29: disconnect() never propagates a failure of the driver's destroy:
\* whether destroy returns or throws, disconnect() resolves and the
\* lifecycle state is disconnected when it does.
C29_DisconnectResolves ==
  lastCall.op = "disconnectEnded"
    => ( lastCall.outcome = "resolved" /\ currentState = "disconnected" )

\* disconnect() was called on a connected session, destroy threw, and the
\* state was forced from connected to disconnected.
C29_Witness ==
  /\ lastCall.op = "disconnectEnded"
  /\ lastCall.destroyThrew
  /\ lastCall.outcome = "resolved"
  /\ currentState = "disconnected"
  /\ previousState = "connected"

\* C38: after disconnect() has completed, on the normal path and on the
\* teardown-failure path alike, the connection-in-progress guard is
\* cleared.
C38_DisconnectClearsGuard ==
  lastCall.op = "disconnectEnded" => ~isConnecting

\* C34: the attempt counter is reset to zero only on connection success,
\* that is only at a moment when the lifecycle state is connected.
C34_ResetOnlyWhenConnected ==
  [][ ( reconnectAttempts > 0 /\ reconnectAttempts' = 0 )
        => currentState' = "connected" ]_vars

\* C23: connect() invokes the driver's initialize only when no connection
\* attempt is in progress and the session is not connected: called while
\* connecting or while connected it changes neither the lifecycle state nor
\* the driver.
C23_ConnectGuarded ==
  [][ ( /\ lastCall'.op = "connect"
        /\ ( isConnecting \/ isConnectingSM(SM) \/ isConnected(SM) ) )
      => ( /\ ~lastCall'.driverInitialized
           /\ lastCall'.outcome = "returned"
           /\ UNCHANGED << currentState, driverLive, conns >> ) ]_vars

\* C9 as stated: connect() throws exactly when the failure did not result
\* in a scheduled retry.
C9_ThrowsIffNotScheduled ==
  lastCall.op = "connectEnded" => (lastCall.threw <=> ~lastCall.scheduled)

\* C9 as amended: connect() throws to its caller whenever the driver's
\* initialize failed, also when a retry has been scheduled.
C9_AlwaysThrows ==
  lastCall.op = "connectEnded" => lastCall.threw

\* A connect() of the user failed, the retry is scheduled and connect()
\* threw all the same.
C9_Witness ==
  /\ lastCall.op = "connectEnded"
  /\ lastCall.origin = "user"
  /\ lastCall.scheduled
  /\ lastCall.threw
  /\ isReconnecting
  /\ timers["connect"] = 1

====
